---- MODULE Spec2Model ----
(***************************************************************************)
(* A model of xex.js: the Environment (definition registry), the parser,   *)
(* constant folding and the expression compiler.                           *)
(***************************************************************************)
EXTENDS Integers, Sequences, FiniteSets, TLC

VARIABLES
  envs,   \* the Environment objects; envs[1] is the exported base environment
  tabs,   \* the heap of table objects (the `lang` and `func` of each Environment)
  last,   \* the last call made and how it ended
  nops,   \* number of calls made so far
  px,     \* the input under test of the parser and compiler runs
  ex      \* the Expression under test: root, dirty flag, caches, callback log

vars == <<envs, tabs, last, nops, px, ex>>

(***************************************************************************)
(* Bounds of the model.                                                    *)
(***************************************************************************)
MaxEnvs == 3
MaxOps == 3
MaxChain == 4

(***************************************************************************)
(* JavaScript values as far as the registry looks at them: `typeof`,       *)
(* truthiness, numbers (integers, and the non-integers NaN, Infinity and   *)
(* PI by name), strings, booleans and function references.                 *)
(***************************************************************************)
Undef == [t |-> "undefined", n |-> 0, s |-> ""]
Num(k) == [t |-> "number", n |-> k, s |-> ""]
NamedNum(x) == [t |-> "number", n |-> 0, s |-> x]
Str(x) == [t |-> "string", n |-> 0, s |-> x]
JsBool(b) == [t |-> "boolean", n |-> IF b THEN 1 ELSE 0, s |-> ""]
Fn(x) == [t |-> "function", n |-> 0, s |-> x]

typeof(v) == v.t

\* ToBoolean of the host language.
Truthy(v) ==
  CASE v.t = "undefined" -> FALSE
    [] v.t = "number" -> IF v.s = "" THEN v.n # 0 ELSE v.s # "NaN"
    [] v.t = "string" -> v.s # ""
    [] v.t = "boolean" -> v.n = 1
    [] OTHER -> TRUE

\* `a || b` of the host language.
JsOr(a, b) == IF Truthy(a) THEN a ELSE b

(***************************************************************************)
(* Characters.                                                             *)
(***************************************************************************)
Letters ==
  {"a","b","c","d","e","f","g","h","i","j","k","l","m","n","o","p","q","r",
   "s","t","u","v","w","x","y","z","A","B","C","D","E","F","G","H","I","J",
   "K","L","M","N","O","P","Q","R","S","T","U","V","W","X","Y","Z"}
Digits == {"0","1","2","3","4","5","6","7","8","9"}

RECURSIVE AllIn(_, _)
AllIn(s, set) ==
  IF Len(s) = 0 THEN TRUE
  ELSE SubSeq(s, 1, 1) \in set /\ AllIn(Tail(s), set)

\* /^[A-Za-z_\$][\w\$]*$/
IsPropName(name) ==
  /\ Len(name) > 0
  /\ SubSeq(name, 1, 1) \in Letters \cup {"_", "$"}
  /\ AllIn(name, Letters \cup Digits \cup {"_", "$"})

accessProp(name) ==
  IF IsPropName(name) THEN "." \o name ELSE "[\"" \o name \o "\"]"

(***************************************************************************)
(* Definitions.  A definition object has the fields below; a field the     *)
(* object does not have reads as `undefined`.                              *)
(***************************************************************************)
NoFields ==
  [type |-> Undef, name |-> Undef, value |-> Undef, args |-> Undef,
   amax |-> Undef, prec |-> Undef, rtl |-> Undef, safe |-> Undef,
   eval |-> Undef, emit |-> Undef]

(***************************************************************************)
(* Environment.  An Environment object holds references to its two table   *)
(* objects, the `frozen` flag, and whether the object itself was frozen by *)
(* Object.freeze (`sealed`).  A table object holds its properties and      *)
(* whether it was frozen by Object.freeze.                                 *)
(***************************************************************************)
NewTable == [props |-> <<>>, sealed |-> FALSE]

Has(tab, name) == name \in DOMAIN tab.props

\* tab[name] = v
PutProp(tab, name, v) ==
  [tab EXCEPT !.props = (name :> v) @@ tab.props]

\* delete tab[name]
DelProp(tab, name) ==
  [tab EXCEPT !.props = [k \in (DOMAIN tab.props) \ {name} |-> tab.props[k]]]

\* The state of the heap of one registry world, and the result of a call.
World(e, t) == [envs |-> e, tabs |-> t]
Ok(w, ret) == [w |-> w, out |-> "ok", ret |-> ret]
Throw(w, kind) == [w |-> w, out |-> kind, ret |-> Undef]

Lang(w, i) == w.tabs[w.envs[i].lang]
Func(w, i) == w.tabs[w.envs[i].func]

\* new Environment()
NewEnvironment(w) ==
  LET l == Len(w.tabs) + 1
      f == Len(w.tabs) + 2
  IN World(Append(w.envs, [lang |-> l, func |-> f, frozen |-> FALSE, sealed |-> FALSE]),
           w.tabs \o <<NewTable, NewTable>>)

\* `null`, what get() returns for a name that is not defined.
Null == [t |-> "object", n |-> 0, s |-> "null"]

get(w, i, name) ==
  IF Has(Lang(w, i), name) THEN Lang(w, i).props[name] ELSE Null

\* String(v) for the values a definition name can be.
ToStr(v) ==
  CASE v.t = "string" -> v.s
    [] v.t = "undefined" -> "undefined"
    [] v.t = "number" -> IF v.s # "" THEN v.s ELSE ToString(v.n)
    [] OTHER -> v.s

\* this.func[name] = def.eval; this.lang[name] = freeze(def); return this
StoreDef_NoFunc(w, i, def) ==
  LET e == w.envs[i]
  IN IF Lang(w, i).sealed THEN Throw(w, "TypeError")
     ELSE Ok(World(w.envs, [w.tabs EXCEPT ![e.lang] = PutProp(@, def.name.s, def)]), Num(i))

StoreDef(w, i, def, withFunc) ==
  LET e == w.envs[i]
  IN IF ~withFunc THEN StoreDef_NoFunc(w, i, def)
     ELSE IF Func(w, i).sealed THEN Throw(w, "TypeError")
     ELSE StoreDef_NoFunc(
            World(w.envs, [w.tabs EXCEPT ![e.func] = PutProp(@, def.name.s, def.eval)]),
            i, def)

\* A variant of the Operator checks that forgets `rtl`.
CheckOperator_precOnly(def) == typeof(def.prec) = "number"

\* case "Operator": the two checks before the fall through.
CheckOperator(def) ==
  /\ typeof(def.prec) = "number"
  /\ typeof(def.rtl) = "boolean"

\* case "Function": the four checks an Operator falls through to.
CheckFunction(def) ==
  /\ typeof(def.args) = "number"
  /\ typeof(def.amax) = "number"
  /\ typeof(def.emit) = "string"
  /\ typeof(def.eval) = "function"

\* The checks and stores of add() after its `frozen` check.
addBody(w, i, def) ==
  LET name == def.name
      type == def.type
  IN IF typeof(name) # "string" THEN Throw(w, "ExpressionError")
     ELSE IF Has(Lang(w, i), name.s) THEN Throw(w, "ExpressionError")
     ELSE IF type = Str("Constant") THEN
       IF typeof(def.value) # "number" THEN Throw(w, "ExpressionError")
       ELSE StoreDef(w, i, def, FALSE)
     ELSE IF type = Str("Operator") THEN
       IF ~CheckOperator(def) THEN Throw(w, "ExpressionError")
       ELSE IF ~CheckFunction(def) THEN Throw(w, "ExpressionError")
       ELSE StoreDef(w, i, def, TRUE)
     ELSE IF type = Str("Function") THEN
       IF ~CheckFunction(def) THEN Throw(w, "ExpressionError")
       ELSE StoreDef(w, i, def, TRUE)
     ELSE Throw(w, "ExpressionError")

\* A variant of add() that does not look at `frozen`.
add_ignoresFrozen(w, i, def) == addBody(w, i, def)

add(w, i, def) ==
  IF w.envs[i].frozen THEN Throw(w, "ExpressionError")
  ELSE addBody(w, i, def)

\* An argument that is a definition object (typeof def === "object").
IsObj(a) == "type" \in DOMAIN a

addConstant(w, i, a0, a1) ==
  LET name == IF IsObj(a0) THEN a0.name ELSE a0
      value == IF IsObj(a0) THEN a0.value ELSE a1
  IN add(w, i, [NoFields EXCEPT !.type = Str("Constant"), !.name = name, !.value = value])

UnaryPrec(def) == JsOr(def.prec, Num(0))
\* A variant where `safe` must be asked for.
SafeOf_defaultFalse(def) == JsBool(def.safe = JsBool(TRUE))

\* safe: def.safe !== false
SafeOf(def) == JsBool(def.safe # JsBool(FALSE))

addUnary(w, i, def) ==
  add(w, i, [NoFields EXCEPT
    !.type = Str("Operator"),
    !.name = Str("unary" \o ToStr(def.name)),
    !.args = Num(1),
    !.amax = Num(1),
    !.prec = UnaryPrec(def),
    !.rtl = JsBool(Truthy(def.rtl)),
    !.safe = SafeOf(def),
    !.eval = def.eval,
    !.emit = JsOr(def.emit, Str("$" \o accessProp(ToStr(def.name)) \o "(@1)"))])

BinaryPrec(def) == JsOr(def.prec, Num(0))

addBinary(w, i, def) ==
  add(w, i, [NoFields EXCEPT
    !.type = Str("Operator"),
    !.name = def.name,
    !.args = Num(2),
    !.amax = Num(2),
    !.prec = BinaryPrec(def),
    !.rtl = JsBool(Truthy(def.rtl)),
    !.safe = SafeOf(def),
    !.eval = def.eval,
    !.emit = JsOr(def.emit, Str("$" \o accessProp(ToStr(def.name)) \o "(@1, @2)"))])

addFunction(w, i, def) ==
  add(w, i, [NoFields EXCEPT
    !.type = Str("Function"),
    !.name = def.name,
    !.args = def.args,
    !.amax = IF typeof(def.amax) = "number" THEN def.amax ELSE def.args,
    !.prec = Num(0),
    !.rtl = JsBool(FALSE),
    !.safe = SafeOf(def),
    !.eval = def.eval,
    !.emit = JsOr(def.emit, Str("$" \o accessProp(ToStr(def.name)) \o "(@args)"))])

\* delete on a frozen object throws in strict mode when the property exists.
DelIn(w, t, name) ==
  IF w.tabs[t].sealed /\ Has(w.tabs[t], name) THEN Throw(w, "TypeError")
  ELSE Ok(World(w.envs, [w.tabs EXCEPT ![t] = DelProp(@, name)]), Undef)

delBody(w, i, name) ==
  LET a == DelIn(w, w.envs[i].lang, name)
  IN IF a.out # "ok" THEN a
     ELSE LET b == DelIn(a.w, w.envs[i].func, name)
          IN IF b.out # "ok" THEN b ELSE Ok(b.w, Num(i))

del(w, i, name) ==
  IF w.envs[i].frozen THEN Throw(w, "ExpressionError")
  ELSE delBody(w, i, name)

\* A variant of clone() whose new Environment refers to the tables of `this`.
clone_sharesTables(w, i) ==
  Ok(World(Append(w.envs, [lang |-> w.envs[i].lang, func |-> w.envs[i].func,
                           frozen |-> FALSE, sealed |-> FALSE]),
           w.tabs),
     Num(Len(w.envs) + 1))

\* Object.assign(cloned.lang, this.lang); Object.assign(cloned.func, this.func)
clone(w, i) ==
  LET n == NewEnvironment(w)
      c == Len(n.envs)
      e == n.envs[c]
  IN Ok(World(n.envs,
              [n.tabs EXCEPT ![e.lang] = [@ EXCEPT !.props = Lang(w, i).props],
                             ![e.func] = [@ EXCEPT !.props = Func(w, i).props]]),
        Num(c))

\* freeze(this.lang); freeze(this.func); this.frozen = true; return freeze(this).
\* Class code is strict: the assignment throws a TypeError when `this` is
\* already frozen by Object.freeze.
freeze(w, i) ==
  LET e == w.envs[i]
      t == [w.tabs EXCEPT ![e.lang] = [@ EXCEPT !.sealed = TRUE],
                          ![e.func] = [@ EXCEPT !.sealed = TRUE]]
  IN IF e.sealed THEN Throw(World(w.envs, t), "TypeError")
     ELSE Ok(World([w.envs EXCEPT ![i] = [@ EXCEPT !.frozen = TRUE, !.sealed = TRUE]], t),
             Num(i))

(***************************************************************************)
(* The base environment: the chain of builder calls that the module runs   *)
(* when it is loaded.                                                      *)
(***************************************************************************)
CDef(name, value) == [NoFields EXCEPT !.name = Str(name), !.value = value]
ODef(name, prec, rtl, eval, emit) ==
  [NoFields EXCEPT !.name = Str(name), !.prec = Num(prec), !.rtl = Num(rtl),
                   !.safe = JsBool(TRUE), !.eval = Fn(eval), !.emit = emit]
FDef(name, args, amax, eval, emit) ==
  [NoFields EXCEPT !.name = Str(name), !.args = Num(args), !.amax = amax,
                   !.safe = JsBool(TRUE), !.eval = Fn(eval), !.emit = emit]
F1(name, eval) == FDef(name, 1, Num(1), eval, Undef)
F2(name, eval) == FDef(name, 2, Num(2), eval, Undef)
FN(name, eval) == FDef(name, 2, NamedNum("Infinity"), eval, Undef)
Call(b, def) == [b |-> b, def |-> def]

BaseCalls == <<
  Call("addConstant", CDef("Infinity", NamedNum("Infinity"))),
  Call("addConstant", CDef("NaN", NamedNum("NaN"))),
  Call("addConstant", CDef("PI", NamedNum("PI"))),
  Call("addUnary", ODef("-", 3, 1, "neg", Str("-(@1)"))),
  Call("addUnary", ODef("!", 3, 1, "not", Str("+!(@1)"))),
  Call("addBinary", ODef("+", 6, 0, "add", Str("@1 + @2"))),
  Call("addBinary", ODef("-", 6, 0, "sub", Str("@1 - @2"))),
  Call("addBinary", ODef("*", 5, 0, "mul", Str("@1 * @2"))),
  Call("addBinary", ODef("/", 5, 0, "div", Str("@1 / @2"))),
  Call("addBinary", ODef("%", 5, 0, "mod", Str("@1 % @2"))),
  Call("addBinary", ODef("&&", 13, 0, "and", Str("+(@1 && @2)"))),
  Call("addBinary", ODef("||", 14, 0, "or", Str("+(@1 || @2)"))),
  Call("addBinary", ODef("==", 9, 0, "eq", Str("+(@1 === @2)"))),
  Call("addBinary", ODef("!=", 9, 0, "ne", Str("+(@1 !== @2)"))),
  Call("addBinary", ODef("~=", 9, 0, "bineq", Undef)),
  Call("addBinary", ODef("<", 8, 0, "lt", Str("+(@1 < @2)"))),
  Call("addBinary", ODef("<=", 8, 0, "le", Str("+(@1 <= @2)"))),
  Call("addBinary", ODef(">", 8, 0, "gt", Str("+(@1 > @2)"))),
  Call("addBinary", ODef(">=", 8, 0, "ge", Str("+(@1 >= @2)"))),
  Call("addFunction", F1("isinf", "isinf")),
  Call("addFunction", FDef("isint", 1, Num(1), "isint", Str("+Number.isInteger(@1)"))),
  Call("addFunction", FDef("issafeint", 1, Num(1), "issafeint", Str("+Number.isSafeInteger(@1)"))),
  Call("addFunction", FDef("isnan", 1, Num(1), "isnan", Str("+Number.isNaN(@1)"))),
  Call("addFunction", FDef("isfinite", 1, Num(1), "isfinite", Str("+Number.isFinite(@1)"))),
  Call("addFunction", F1("abs", "Math.abs")),
  Call("addFunction", F1("sign", "Math.sign")),
  Call("addFunction", F1("round", "Math.round")),
  Call("addFunction", F1("trunc", "Math.trunc")),
  Call("addFunction", F1("floor", "Math.floor")),
  Call("addFunction", F1("ceil", "Math.ceil")),
  Call("addFunction", F1("frac", "frac")),
  Call("addFunction", F1("sqrt", "Math.sqrt")),
  Call("addFunction", F1("cbrt", "Math.cbrt")),
  Call("addFunction", F1("exp", "Math.exp")),
  Call("addFunction", F1("expm1", "Math.expm1")),
  Call("addFunction", F1("log", "Math.log")),
  Call("addFunction", F1("log2", "Math.log2")),
  Call("addFunction", F1("log10", "Math.log10")),
  Call("addFunction", F1("sin", "Math.sin")),
  Call("addFunction", F1("sinh", "Math.sinh")),
  Call("addFunction", F1("cos", "Math.cos")),
  Call("addFunction", F1("cosh", "Math.cosh")),
  Call("addFunction", F1("tan", "Math.tan")),
  Call("addFunction", F1("tanh", "Math.tanh")),
  Call("addFunction", F1("asin", "Math.asin")),
  Call("addFunction", F1("asinh", "Math.asinh")),
  Call("addFunction", F1("acos", "Math.acos")),
  Call("addFunction", F1("acosh", "Math.acosh")),
  Call("addFunction", F1("atan", "Math.atan")),
  Call("addFunction", F1("atanh", "Math.atanh")),
  Call("addFunction", FN("min", "Math.min")),
  Call("addFunction", FN("minval", "minval")),
  Call("addFunction", FN("max", "Math.max")),
  Call("addFunction", FN("maxval", "maxval")),
  Call("addFunction", F2("pow", "Math.pow")),
  Call("addFunction", F2("atan2", "Math.atan2")),
  Call("addFunction", F2("hypot", "Math.hypot")) >>

Builder(w, i, c) ==
  CASE c.b = "addConstant" -> addConstant(w, i, c.def, Undef)
    [] c.b = "addUnary" -> addUnary(w, i, c.def)
    [] c.b = "addBinary" -> addBinary(w, i, c.def)
    [] c.b = "addFunction" -> addFunction(w, i, c.def)
    [] OTHER -> add(w, i, c.def)

RECURSIVE Chain(_, _, _)

\* Each builder returns `this`, on which the next one is called.
ChainNext(r, i, calls) == IF r.out = "ok" THEN Chain(r.w, i, calls) ELSE r.w

Chain(w, i, calls) ==
  IF calls = <<>> THEN w
  ELSE ChainNext(Builder(w, i, Head(calls)), i, Tail(calls))

\* return new Environment().addConstant(...) ... .addFunction(...)
BaseWorld == Chain(NewEnvironment(World(<<>>, <<>>)), 1, BaseCalls)

(***************************************************************************)
(* Tokenizer.                                                              *)
(***************************************************************************)
kCharNone == "_"
kCharSpace == "S"
kCharAlpha == "A"
kCharDigit == "D"
kCharPunct == "$"

SpaceChars == {" ", "\t", "\n", "\f", "\r"}
\* The punctuation characters of the table, but for the grave accent (code 96),
\* which a TLA+ string cannot hold.
PunctChars ==
  {"!", "\"", "#", "$", "%", "&", "'", "(", ")", "*", "+", ",", "-", ".", "/",
   ":", ";", "<", "=", ">", "?", "@", "[", "\\", "]", "^", "{", "|", "}", "~"}

Category(c) ==
  IF c \in SpaceChars THEN kCharSpace
  ELSE IF c \in Letters \cup {"_"} THEN kCharAlpha
  ELSE IF c \in Digits THEN kCharDigit
  ELSE IF c \in PunctChars THEN kCharPunct
  ELSE kCharNone

kTokenNone == 0
kTokenPunct == 1
kTokenIdent == 2
kTokenValue == 3
kMaxOperatorLen == 4

newToken(type, position, data, value) ==
  [type |-> type, position |-> position, data |-> data, value |-> value]

NoToken == newToken(kTokenNone, -1, "<end>", Null)

\* input[k] for a 1-based k; "" outside the string, as a failed comparison.
CharAt(input, k) == IF k >= 1 /\ k <= Len(input) THEN SubSeq(input, k, k) ELSE ""

\* The first position >= k whose character is not in `set`.
RECURSIVE SkipWhile(_, _, _)
SkipWhile(input, k, set) ==
  IF k <= Len(input) /\ CharAt(input, k) \in set THEN SkipWhile(input, k + 1, set)
  ELSE k

\* reValue matched at position k: digits, or optional digits, a dot and digits;
\* then optionally one character of the class [E|e], at most one of the class
\* [+|-], and digits.  The position after the match (k when there is none).
ExpChars == {"E", "|", "e"}
SignChars == {"+", "|", "-"}

reValueExp(input, m, s1) ==
  IF CharAt(input, m) \in ExpChars /\ SkipWhile(input, s1, Digits) > s1
  THEN SkipWhile(input, s1, Digits)
  ELSE IF CharAt(input, m) \in ExpChars /\ SkipWhile(input, m + 1, Digits) > m + 1
  THEN SkipWhile(input, m + 1, Digits)
  ELSE m

reValueFrac(input, k, d1, f1) ==
  IF CharAt(input, d1) = "." /\ f1 > d1 + 1
  THEN reValueExp(input, f1, IF CharAt(input, f1 + 1) \in SignChars THEN f1 + 2 ELSE f1 + 1)
  ELSE IF d1 = k THEN k
  ELSE reValueExp(input, d1, IF CharAt(input, d1 + 1) \in SignChars THEN d1 + 2 ELSE d1 + 1)

reValueInt(input, k, d1) == reValueFrac(input, k, d1, SkipWhile(input, d1 + 1, Digits))

reValueEnd(input, k) == reValueInt(input, k, SkipWhile(input, k, Digits))

DigitVal(c) ==
  CASE c = "0" -> 0 [] c = "1" -> 1 [] c = "2" -> 2 [] c = "3" -> 3 [] c = "4" -> 4
    [] c = "5" -> 5 [] c = "6" -> 6 [] c = "7" -> 7 [] c = "8" -> 8 [] c = "9" -> 9

RECURSIVE DecVal(_, _)
DecVal(s, acc) ==
  IF Len(s) = 0 THEN acc
  ELSE DecVal(Tail(s), 10 * acc + DigitVal(SubSeq(s, 1, 1)))

RECURSIVE Pow10(_)
Pow10(k) == IF k = 0 THEN 1 ELSE 10 * Pow10(k - 1)

\* mant * 10^scale for scale < 0, with the trailing zeros of mant removed.
RECURSIVE Scaled(_, _)
Scaled(mant, scale) ==
  IF scale = 0 \/ mant = 0 THEN Num(mant)
  ELSE IF mant % 10 = 0 THEN Scaled(mant \div 10, scale + 1)
  ELSE NamedNum(ToString(mant) \o "e" \o ToString(scale))

\* parseFloat(data): the number the longest numeric prefix of `data` denotes.
\* An integer is Num(k); a non-integer is named by mantissa digits and the
\* power of ten that scales them.
parseFloatNum(mant, scale) ==
  IF scale >= 0 THEN Num(mant * Pow10(scale)) ELSE Scaled(mant, scale)

\* The exponent digits are data[s1..e1-1] when hasExp.
parseFloatExp(data, digits, fracLen, negative, hasExp, s1, e1) ==
  parseFloatNum(DecVal(digits, 0),
                (IF ~hasExp THEN 0
                 ELSE IF negative THEN 0 - DecVal(SubSeq(data, s1, e1 - 1), 0)
                 ELSE DecVal(SubSeq(data, s1, e1 - 1), 0)) - fracLen)

parseFloatSign(data, digits, fracLen, isE, m, s1) ==
  parseFloatExp(data, digits, fracLen, CharAt(data, m + 1) = "-",
                isE /\ SkipWhile(data, s1, Digits) > s1, s1, SkipWhile(data, s1, Digits))

\* The mantissa ends before position m.
parseFloatMant(data, digits, fracLen, m) ==
  parseFloatSign(data, digits, fracLen, CharAt(data, m) \in {"e", "E"}, m,
                 IF CharAt(data, m) \in {"e", "E"} /\ CharAt(data, m + 1) \in {"+", "-"}
                 THEN m + 2 ELSE m + 1)

parseFloatFrac(data, d1, f1) ==
  IF CharAt(data, d1) = "." /\ f1 > d1 + 1
  THEN parseFloatMant(data, SubSeq(data, 1, d1 - 1) \o SubSeq(data, d1 + 1, f1 - 1),
                      f1 - d1 - 1, f1)
  ELSE parseFloatMant(data, SubSeq(data, 1, d1 - 1), 0, d1)

parseFloatInt(data, d1) == parseFloatFrac(data, d1, SkipWhile(data, d1 + 1, Digits))

parseFloat(data) == parseFloatInt(data, SkipWhile(data, 1, Digits))

\* The punctuation branch: split the run input[start..stop-1] into tokens.
RECURSIVE PunctLen(_, _, _, _, _)
PunctLen(w, i, input, start, j) ==
  IF get(w, i, SubSeq(input, start, start + j - 1)) # Null \/ j = 1 THEN j
  ELSE PunctLen(w, i, input, start, j - 1)

Min2(a, b) == IF a < b THEN a ELSE b

RECURSIVE PunctSplit(_, _, _, _, _, _)
PunctSplit(w, i, input, start, stop, tokens) ==
  IF start >= stop THEN tokens
  ELSE LET j == PunctLen(w, i, input, start, Min2(stop - start, kMaxOperatorLen))
       IN PunctSplit(w, i, input, start + j, stop,
            Append(tokens, newToken(kTokenPunct, start - 1,
                                    SubSeq(input, start, start + j - 1), Null)))

\* The digits at k never join a dot before them.
DotBefore_never(input, tokens, k) == FALSE

\* Line 384: the last token is a dot, and it is the character before k.
DotBefore(input, tokens, k) ==
  Len(tokens) >= 1 /\ tokens[Len(tokens)].data = "." /\ CharAt(input, k - 1) = "."

\* The loop of tokenize(); k is the 1-based index into the input.
RECURSIVE tokenizeFrom(_, _, _, _, _)

\* Lines 380-389: the Value token input[b..e-1].
tokenizeValue(w, i, input, toks, b, e) ==
  tokenizeFrom(w, i, input, e,
    Append(toks, newToken(kTokenValue, b - 1, SubSeq(input, b, e - 1),
                          parseFloat(SubSeq(input, b, e - 1)))))

tokenizeFrom(w, i, input, k, tokens) ==
  IF k > Len(input) THEN [out |-> "ok", tokens |-> tokens, position |-> -1]
  ELSE
    LET cat == Category(CharAt(input, k))
    IN CASE cat = kCharSpace -> tokenizeFrom(w, i, input, k + 1, tokens)
         [] cat = kCharDigit ->
              IF DotBefore(input, tokens, k)
              THEN tokenizeValue(w, i, input, SubSeq(tokens, 1, Len(tokens) - 1), k - 1,
                                 reValueEnd(input, k - 1))
              ELSE tokenizeValue(w, i, input, tokens, k, reValueEnd(input, k))
         [] cat = kCharAlpha ->
              LET e == SkipWhile(input, k + 1, Letters \cup {"_"} \cup Digits)
              IN tokenizeFrom(w, i, input, e,
                   Append(tokens, newToken(kTokenIdent, k - 1, SubSeq(input, k, e - 1), Null)))
         [] cat = kCharPunct ->
              LET e == SkipWhile(input, k + 1, PunctChars)
              IN tokenizeFrom(w, i, input, e, PunctSplit(w, i, input, k, e, tokens))
         [] OTHER -> [out |-> "ExpressionError", tokens |-> tokens, position |-> k - 1]

tokenize(w, i, input) == tokenizeFrom(w, i, input, 1, <<>>)

(***************************************************************************)
(* Expression nodes.  A number is a JS number value; the other nodes are   *)
(* records with a `type` field.  A Var node carries the identity (`id`) of *)
(* the object newVar() allocated.                                          *)
(***************************************************************************)
newVar(name, id) == [type |-> "Var", name |-> name, id |-> id]
newUnary(name, info, value) == [type |-> "Unary", name |-> name, info |-> info, value |-> value]
newBinary(name, info, left, right) ==
  [type |-> "Binary", name |-> name, info |-> info, left |-> left, right |-> right]
newCall(name, info, args) == [type |-> "Call", name |-> name, info |-> info, args |-> args]

IsNode(node) == "type" \in DOMAIN node
isValue(node) == ~IsNode(node) /\ node.t = "number"

(***************************************************************************)
(* Parser.  A parser state P holds the tokens, the options, the token      *)
(* index and the name -> Var node map.  Inside one parseExpression() the   *)
(* Binary nodes it has created live in `nodes` and are referred to by      *)
(* index (from the stack and from each other), since the loop re-parents   *)
(* them in place.                                                          *)
(***************************************************************************)
NoOptions == [noFolding |-> FALSE, hasWhitelist |-> FALSE, varsWhitelist |-> {}]

newParser(tokens, options) ==
  [tokens |-> tokens, options |-> options, tIndex |-> 0, vars |-> <<>>]

peek(P) == IF P.tIndex < Len(P.tokens) THEN P.tokens[P.tIndex + 1] ELSE NoToken
skip(P) == [P EXCEPT !.tIndex = @ + 1]
AfterNext(P) == IF P.tIndex < Len(P.tokens) THEN skip(P) ELSE P

\* Results of the parse functions.
Parsed(P, value) == [out |-> "ok", msg |-> "", position |-> -1, value |-> value, P |-> P]
ParseError(P, msg, position) ==
  [out |-> "ExpressionError", msg |-> msg, position |-> position, value |-> Null, P |-> P]
throwTokenError(P, token) ==
  ParseError(P, "Unexpected token '" \o token.data \o "'", token.position)

\* A variant of rightAssociate() that forgets `rtl`.
rightAssociate_ignoresRtl(info, bPrec) == info.prec.n > bPrec

rightAssociate(info, bPrec) ==
  info.prec.n > bPrec \/ (info.prec.n = bPrec /\ info.rtl = JsBool(TRUE))

Ref(k) == [ref |-> k]
IsRef(x) == "ref" \in DOMAIN x

\* The tree below a slot of a Binary node under construction.
RECURSIVE Materialize(_, _)
Materialize(nodes, x) ==
  IF IsRef(x) THEN
    newBinary(nodes[x.ref].name, nodes[x.ref].info,
              Materialize(nodes, nodes[x.ref].left),
              Materialize(nodes, nodes[x.ref].right))
  ELSE x

\* while (stack.length) { if (rightAssociate(aNode.info, bPrec)) break; aNode = stack.pop(); }
RECURSIVE Advance(_, _, _, _)
Advance(nodes, stack, a, bPrec) ==
  IF Len(stack) = 0 \/ rightAssociate(nodes[a].info, bPrec) THEN [a |-> a, stack |-> stack]
  ELSE Advance(nodes, SubSeq(stack, 1, Len(stack) - 1), stack[Len(stack)], bPrec)

\* Lines 529-568: link the new Binary node `name` into the pending nodes.
PushBinary(nodes0, stack, name, info, value) ==
  LET b == Len(nodes0) + 1
      nodes == Append(nodes0, [name |-> name, info |-> info, left |-> Null, right |-> Null])
      bPrec == info.prec.n
  IN IF Len(stack) = 0 THEN
       [nodes |-> [nodes EXCEPT ![b].left = value], stack |-> <<b>>]
     ELSE
       LET a0 == stack[Len(stack)]
           rest == SubSeq(stack, 1, Len(stack) - 1)
       IN IF nodes[a0].info.prec.n > bPrec THEN
            [nodes |-> [nodes EXCEPT ![a0].right = Ref(b), ![b].left = value],
             stack |-> rest \o <<a0, b>>]
          ELSE
            LET n1 == [nodes EXCEPT ![a0].right = value]
                adv == Advance(n1, rest, a0, bPrec)
                a == adv.a
            IN IF Len(adv.stack) = 0 /\ ~rightAssociate(n1[a].info, bPrec) THEN
                 [nodes |-> [n1 EXCEPT ![b].left = Ref(a)], stack |-> <<b>>]
               ELSE
                 [nodes |-> [n1 EXCEPT ![a].right = Ref(b), ![b].left = n1[a].right],
                  stack |-> adv.stack \o <<a, b>>]

\* Lines 575-582: the value parseExpression() returns.
FinishExpression(nodes, stack, value) ==
  IF Len(stack) = 0 THEN value
  ELSE Materialize([nodes EXCEPT ![stack[Len(stack)]].right = value], Ref(stack[1]))

\* Lines 464-478: the unary operators in front of a primary, outermost first,
\* and the parser state whose next token is the first one after them.
RECURSIVE UnaryChain(_, _, _, _)
UnaryChain(w, i, P, chain) ==
  LET token == peek(P)
      name == "unary" \o token.data
      info == get(w, i, name)
  IN IF token.type = kTokenPunct /\ info # Null
     THEN UnaryChain(w, i, AfterNext(P), Append(chain, [name |-> name, info |-> info]))
     ELSE [P |-> P, chain |-> chain]

\* Lines 521-524: unaryLast.value = value; value = unaryFirst
RECURSIVE WrapUnary(_, _)
WrapUnary(chain, value) ==
  IF chain = <<>> THEN value
  ELSE newUnary(chain[1].name, chain[1].info, WrapUnary(Tail(chain), value))

\* amax may be Infinity.
NumLess(a, b) ==
  IF a.s = "Infinity" THEN FALSE
  ELSE IF b.s = "Infinity" THEN TRUE
  ELSE a.n < b.n

RECURSIVE parseExpression(_, _, _)
RECURSIVE ExpressionLoop(_, _, _, _, _)
RECURSIVE CallLoop(_, _, _, _)

\* Lines 598-601: one argument was parsed.
CallNext(w, i, args, r) ==
  IF r.out # "ok" THEN r
  ELSE CallLoop(w, i, r.P, Append(args, r.value))

\* The for (;;) loop of parseCall().
CallLoop(w, i, P, args) ==
  LET token == peek(P)
  IN IF token.data = ")" THEN Parsed(P, args)
     ELSE IF Len(args) # 0 /\ token.data # "," THEN throwTokenError(P, token)
     ELSE CallNext(w, i, args, parseExpression(w, i, IF Len(args) # 0 THEN skip(P) ELSE P))

\* A variant of the end of parseCall() without the argument count check.
parseCallEnd_anyCount(name, info, r) ==
  IF r.out # "ok" THEN r ELSE Parsed(skip(r.P), newCall(name, info, r.value))

\* Lines 604-612: the argument count check and the Call node.
parseCallEnd(name, info, r) ==
  LET n == Num(Len(r.value))
  IN IF r.out # "ok" THEN r
     ELSE IF NumLess(n, info.args) \/ NumLess(info.amax, n) THEN
       IF info.args = info.amax THEN
         ParseError(skip(r.P),
           "Function '" \o name \o "' accepts " \o ToStr(info.args) \o
           " argument(s), " \o ToStr(n) \o " provided", -1)
       ELSE
         ParseError(skip(r.P),
           "Function '" \o name \o "' accepts " \o ToStr(info.args) \o " to " \o
           ToStr(info.amax) \o " argument(s), " \o ToStr(n) \o " provided", -1)
     ELSE Parsed(skip(r.P), newCall(name, info, r.value))

parseCall(w, i, P0, func, info) ==
  IF peek(P0).data # "(" THEN throwTokenError(AfterNext(P0), peek(P0))
  ELSE parseCallEnd(func.data, info, CallLoop(w, i, AfterNext(P0), <<>>))

\* A variant of the whitelist test that lets every name pass.
Whitelisted_any(options, name) == TRUE

\* !(whitelist && !hasOwn.call(whitelist, name))
Whitelisted(options, name) == ~options.hasWhitelist \/ name \in options.varsWhitelist

\* A variant of the test below that takes nothing for a function.
IsFunction_never(info) == FALSE

\* info && info.type === "Function"
IsFunction(info) == info # Null /\ info.type = Str("Function")

\* Lines 482-509: an identifier; `info` is what the environment has under it.
PrimaryIdent(w, i, token, P, info) ==
  LET name == token.data
  IN IF peek(P).data = "(" THEN
       IF info = Null THEN
         ParseError(P, "Function " \o name \o " not defined", token.position)
       ELSE IF info.type # Str("Function") THEN
         ParseError(P, "Variable " \o name \o " cannot be used as function", token.position)
       ELSE parseCall(w, i, P, token, info)
     ELSE IF IsFunction(info) THEN
       ParseError(P, "Function " \o name \o " cannot be used as variable", token.position)
     ELSE IF info # Null /\ info.type = Str("Constant") THEN Parsed(P, info.value)
     ELSE IF ~Whitelisted(P.options, name) THEN
       ParseError(P, "Variable " \o name \o " is not on the whitelist", token.position)
     ELSE IF name \in DOMAIN P.vars THEN Parsed(P, P.vars[name])
     ELSE Parsed([P EXCEPT !.vars = (name :> newVar(name, Cardinality(DOMAIN P.vars) + 1)) @@ @],
                 newVar(name, Cardinality(DOMAIN P.vars) + 1))

\* Lines 510-516: the nested expression was parsed; it must end at ")".
PrimaryNested(r) ==
  IF r.out # "ok" THEN r
  ELSE IF peek(r.P).data # ")" THEN throwTokenError(AfterNext(r.P), peek(r.P))
  ELSE Parsed(AfterNext(r.P), r.value)

\* Lines 480-518: a value, variable, function call or nested expression.
PrimaryOf(w, i, token, P) ==
  IF token.type = kTokenValue THEN Parsed(P, token.value)
  ELSE IF token.type = kTokenIdent THEN PrimaryIdent(w, i, token, P, get(w, i, token.data))
  ELSE IF token.data = "(" THEN PrimaryNested(parseExpression(w, i, P))
  ELSE throwTokenError(P, token)

Primary(w, i, P0) == PrimaryOf(w, i, peek(P0), AfterNext(P0))

\* Lines 529-572: the new Binary node was linked; next turn of the loop.
ExpressionPush(w, i, P, pb) == ExpressionLoop(w, i, P, pb.nodes, pb.stack)

\* Lines 526-582: the token after the operand is a binary operator, or the
\* expression ends.
ExpressionNext(w, i, nodes, stack, P, value, token, info) ==
  IF token.type = kTokenPunct /\ info # Null THEN
    ExpressionPush(w, i, skip(P), PushBinary(nodes, stack, token.data, info, value))
  ELSE Parsed(P, FinishExpression(nodes, stack, value))

\* Lines 519-527: wrap the operand in its unary operators, look at the next token.
ExpressionBinary(w, i, nodes, stack, chain, r) ==
  IF r.out # "ok" THEN r
  ELSE ExpressionNext(w, i, nodes, stack, r.P, WrapUnary(chain, r.value),
                      peek(r.P), get(w, i, peek(r.P).data))

ExpressionPrimary(w, i, nodes, stack, u) ==
  ExpressionBinary(w, i, nodes, stack, u.chain, Primary(w, i, u.P))

\* One turn of the for (;;) loop of parseExpression().
ExpressionLoop(w, i, P0, nodes, stack) ==
  ExpressionPrimary(w, i, nodes, stack, UnaryChain(w, i, P0, <<>>))

parseExpression(w, i, P) == ExpressionLoop(w, i, P, <<>>, <<>>)

\* A variant of the end of parse() that lets tokens remain.
parseEnd_lenient(r) == r

\* Lines 438-444: the whole input must have been consumed.
parseEnd(r) ==
  IF r.out # "ok" THEN r
  ELSE IF peek(r.P) # NoToken THEN throwTokenError(r.P, peek(r.P))
  ELSE r

\* Parser.parse()
parse(w, i, P) ==
  IF peek(P) = NoToken THEN throwTokenError(P, NoToken)
  ELSE parseEnd(parseExpression(w, i, P))

(***************************************************************************)
(* The `eval` callbacks.  A callback is named by the function it refers    *)
(* to; applied to integers the arithmetic and logic callbacks compute      *)
(* their result, and any other application is the number named by the     *)
(* application itself (an uninterpreted term).                             *)
(***************************************************************************)
RECURSIVE ArgList(_)
ArgList(args) ==
  IF args = <<>> THEN ""
  ELSE ToStr(args[1]) \o (IF Len(args) > 1 THEN "," ELSE "") \o ArgList(Tail(args))

Term(f, args) == NamedNum(f \o "(" \o ArgList(args) \o ")")

B01(b) == Num(IF b THEN 1 ELSE 0)

RECURSIVE IntPow(_, _)
IntPow(x, y) == IF y = 0 THEN 1 ELSE x * IntPow(x, y - 1)

AllInts(args) == \A k \in 1..Len(args) : args[k].t = "number" /\ args[k].s = ""

Apply(fn, args) ==
  LET f == fn.s
      x == IF Len(args) >= 1 THEN args[1].n ELSE 0
      y == IF Len(args) >= 2 THEN args[2].n ELSE 0
  IN IF ~AllInts(args) THEN Term(f, args)
     ELSE CASE f = "neg" /\ Len(args) = 1 -> Num(0 - x)
            [] f = "not" /\ Len(args) = 1 -> B01(x = 0)
            [] f = "add" /\ Len(args) = 2 -> Num(x + y)
            [] f = "sub" /\ Len(args) = 2 -> Num(x - y)
            [] f = "mul" /\ Len(args) = 2 -> Num(x * y)
            [] f = "div" /\ Len(args) = 2 /\ x >= 0 /\ y > 0 /\ x % y = 0 -> Num(x \div y)
            [] f = "and" /\ Len(args) = 2 -> Num(IF x = 0 THEN 0 ELSE y)
            [] f = "or" /\ Len(args) = 2 -> Num(IF x # 0 THEN x ELSE y)
            [] f = "eq" /\ Len(args) = 2 -> B01(x = y)
            [] f = "ne" /\ Len(args) = 2 -> B01(x # y)
            [] f = "bineq" /\ Len(args) = 2 -> B01(x = y)
            [] f = "lt" /\ Len(args) = 2 -> B01(x < y)
            [] f = "le" /\ Len(args) = 2 -> B01(x <= y)
            [] f = "gt" /\ Len(args) = 2 -> B01(x > y)
            [] f = "ge" /\ Len(args) = 2 -> B01(x >= y)
            [] f = "Math.pow" /\ Len(args) = 2 /\ y >= 0 -> Num(IntPow(x, y))
            [] f = "Math.abs" /\ Len(args) = 1 -> Num(IF x < 0 THEN 0 - x ELSE x)
            [] f = "double" /\ Len(args) = 1 -> Num(x + x)
            [] f \in {"isint", "issafeint", "isfinite"} /\ Len(args) = 1 -> Num(1)
            [] f \in {"isnan", "isinf"} /\ Len(args) = 1 -> Num(0)
            [] f \in {"Number.isInteger", "Number.isSafeInteger", "Number.isFinite"}
                 /\ Len(args) = 1 -> JsBool(TRUE)
            [] f = "Number.isNaN" /\ Len(args) = 1 -> JsBool(FALSE)
            [] OTHER -> Term(f, args)

(***************************************************************************)
(* Expression: constant folding.  A fold returns the node that replaces    *)
(* the one folded, whether `dirty` was set, and the callbacks it invoked.  *)
(***************************************************************************)
Folded(node, dirty, calls) == [node |-> node, dirty |-> dirty, calls |-> calls]

\* The entry of the log for info.eval(...) called for `node`.
Invoked(node) == [name |-> node.name, safe |-> node.info.safe, eval |-> node.info.eval]

RECURSIVE onNodeFold(_, _)
RECURSIVE FoldArgs(_, _)

FoldArgsJoin(h, t) ==
  Folded(<<h.node>> \o t.node, h.dirty \/ t.dirty, h.calls \o t.calls)

\* for (i = 0; i < args.length; i++) args[i] = this.$onNodeFold(args[i], cmap)
FoldArgs(args, cmap) ==
  IF args = <<>> THEN Folded(<<>>, FALSE, <<>>)
  ELSE FoldArgsJoin(onNodeFold(args[1], cmap), FoldArgs(Tail(args), cmap))

\* A variant of the fold that does not look at `safe`.
FoldSafe_ignored(info) == TRUE

\* if (info.safe && ...)
FoldSafe(info) == Truthy(info.safe)

\* A variant of the Unary case that never replaces the node by its value.
FoldUnary_neverCollapses(node, c) ==
  Folded([node EXCEPT !.value = c.node], c.dirty, c.calls)

\* Lines 195-203: the operand of a Unary node was folded to `c`.
FoldUnary(node, c) ==
  IF FoldSafe(node.info) /\ isValue(c.node) THEN
    Folded(Apply(node.info.eval, <<c.node>>), TRUE, Append(c.calls, Invoked(node)))
  ELSE Folded([node EXCEPT !.value = c.node], c.dirty, c.calls)

\* Lines 204-213: the operands of a Binary node were folded to `l` and `r`.
FoldBinary(node, l, r) ==
  IF FoldSafe(node.info) /\ isValue(l.node) /\ isValue(r.node) THEN
    Folded(Apply(node.info.eval, <<l.node, r.node>>), TRUE,
           Append(l.calls \o r.calls, Invoked(node)))
  ELSE Folded([node EXCEPT !.left = l.node, !.right = r.node],
              l.dirty \/ r.dirty, l.calls \o r.calls)

\* Lines 214-226: the arguments of a Call node were folded to `a`.
FoldCall(node, a) ==
  IF FoldSafe(node.info) /\ (\A k \in 1..Len(a.node) : isValue(a.node[k])) THEN
    Folded(Apply(node.info.eval, a.node), TRUE, Append(a.calls, Invoked(node)))
  ELSE Folded([node EXCEPT !.args = a.node], a.dirty, a.calls)

onNodeFold(node, cmap) ==
  IF ~IsNode(node) THEN Folded(node, FALSE, <<>>)
  ELSE CASE node.type = "Var" ->
              IF node.name \in DOMAIN cmap THEN Folded(cmap[node.name], TRUE, <<>>)
              ELSE Folded(node, FALSE, <<>>)
         [] node.type = "Unary" -> FoldUnary(node, onNodeFold(node.value, cmap))
         [] node.type = "Binary" ->
              FoldBinary(node, onNodeFold(node.left, cmap), onNodeFold(node.right, cmap))
         [] node.type = "Call" -> FoldCall(node, FoldArgs(node.args, cmap))

\* new Expression(env, root)
newExpression(i, root) ==
  [env |-> i, root |-> root, dirty |-> FALSE, evalCache |-> Null, varsCache |-> Null,
   calls |-> <<>>]

\* A variant of _checkDirty() that drops the caches whatever `dirty` is.
checkDirty_always(e, f) ==
  [e EXCEPT !.root = f.node, !.dirty = FALSE, !.evalCache = Null, !.varsCache = Null,
            !.calls = @ \o f.calls]

\* A variant of _checkDirty() that keeps the caches whatever `dirty` is.
checkDirty_keeps(e, f) ==
  [e EXCEPT !.root = f.node, !.dirty = FALSE, !.calls = @ \o f.calls]

\* _checkDirty() after a fold that returned `f`.
checkDirty(e, f) ==
  [e EXCEPT !.root = f.node,
            !.dirty = FALSE,
            !.evalCache = IF e.dirty \/ f.dirty THEN Null ELSE @,
            !.varsCache = IF e.dirty \/ f.dirty THEN Null ELSE @,
            !.calls = @ \o f.calls]

\* Expression.fold(cmap): $onNodeFold, then _checkDirty.
fold(e, cmap) == checkDirty(e, onNodeFold(e.root, cmap))

NoMap == <<>>

ExpResult(out, msg, position, e) ==
  [out |-> out, msg |-> msg, position |-> position, exp |-> e]

\* Lines 656-658: new Expression(this, root), folded unless options.noFolding.
expParsed(i, options, r) ==
  IF r.out # "ok" THEN ExpResult(r.out, r.msg, r.position, Null)
  ELSE ExpResult("ok", "", -1,
                 IF options.noFolding THEN newExpression(i, r.value)
                 ELSE fold(newExpression(i, r.value), NoMap))

\* Lines 652-655: the tokens go to a new Parser.
expTokens(w, i, options, t) ==
  IF t.out # "ok" THEN ExpResult(t.out, "Unrecognized character", t.position, Null)
  ELSE expParsed(i, options, parse(w, i, newParser(t.tokens, options)))

\* Environment.exp(input, options)
exp(w, i, input, options) == expTokens(w, i, options, tokenize(w, i, input))

(***************************************************************************)
(* Expression: compilation to JavaScript text.  A compilation returns the  *)
(* text, or the error it throws.                                           *)
(***************************************************************************)
Text(text) == [out |-> "ok", text |-> text, msg |-> ""]
NoText(kind) == [out |-> kind, text |-> "", msg |-> ""]
NoTextFor(kind, msg) == [out |-> kind, text |-> "", msg |-> msg]

\* a + b for two pieces of text, the first error winning.
Joined(a, b) ==
  IF a.out # "ok" THEN a
  ELSE IF b.out # "ok" THEN b
  ELSE Text(a.text \o b.text)

IsPrefix(key, s) == Len(key) <= Len(s) /\ SubSeq(s, 1, Len(key)) = key

\* The first of `keys` that `tpl` starts with, "" when there is none.
RECURSIVE MatchAt(_, _)
MatchAt(tpl, keys) ==
  IF keys = <<>> THEN ""
  ELSE IF IsPrefix(keys[1], tpl) THEN keys[1]
  ELSE MatchAt(tpl, Tail(keys))

\* emit.replace(/key1|key2|.../g, callback): subs[key] is what the callback
\* returns for the key.
RECURSIVE Replace(_, _, _)

ReplaceKey(tpl, keys, subs, key) ==
  IF key = "" THEN
    Joined(Text(SubSeq(tpl, 1, 1)), Replace(SubSeq(tpl, 2, Len(tpl)), keys, subs))
  ELSE
    Joined(subs[key], Replace(SubSeq(tpl, Len(key) + 1, Len(tpl)), keys, subs))

Replace(tpl, keys, subs) ==
  IF tpl = "" THEN Text("")
  ELSE ReplaceKey(tpl, keys, subs, MatchAt(tpl, keys))

\* The variable map of a compilation: a string (the name of the object the
\* variables are read from), or an object from names to identifiers.
VMapString(name) == [kind |-> "string", name |-> name, map |-> <<>>]
VMapObject(map) == [kind |-> "object", name |-> "", map |-> map]

RECURSIVE onNodeCompile(_, _)
RECURSIVE JoinArgs(_, _, _)

\* Lines 282-287: the text of @args.
JoinArgs(args, vmap, k) ==
  IF k > Len(args) THEN Text("")
  ELSE Joined(Joined(Text(IF k > 1 THEN ", " ELSE ""), onNodeCompile(args[k], vmap)),
              JoinArgs(args, vmap, k + 1))

\* Line 280: args[parseInt(p.substr(1), 10)], an index from zero; the node is
\* undefined past the end, and reading its `info` is a TypeError.
CompileArg(args, index, vmap) ==
  IF index + 1 <= Len(args) THEN onNodeCompile(args[index + 1], vmap)
  ELSE NoText("TypeError")

\* case "Var" of $onNodeCompile.
CompileVar(name, vmap) ==
  IF vmap.kind = "string" THEN Text(vmap.name \o accessProp(name))
  ELSE IF name \notin DOMAIN vmap.map THEN
    NoTextFor("ExpressionError", "Variable '" \o name \o "' used, but no mapping provided")
  ELSE Text(vmap.map[name])

onNodeCompile(node, vmap) ==
  IF isValue(node) THEN Text(ToStr(node))
  ELSE CASE node.type = "Var" -> CompileVar(node.name, vmap)
         [] node.type = "Unary" ->
              Replace(node.info.emit.s, <<"@1">>,
                      [k \in {"@1"} |-> onNodeCompile(node.value, vmap)])
         [] node.type = "Binary" ->
              Replace(node.info.emit.s, <<"@1", "@2">>,
                      [k \in {"@1", "@2"} |->
                         onNodeCompile(IF k = "@1" THEN node.left ELSE node.right, vmap)])
         [] node.type = "Call" ->
              Replace(node.info.emit.s, <<"@args", "@1", "@2">>,
                      [k \in {"@args", "@1", "@2"} |->
                         IF k = "@args" THEN JoinArgs(node.args, vmap, 1)
                         ELSE CompileArg(node.args, IF k = "@1" THEN 1 ELSE 2, vmap)])

(***************************************************************************)
(* The host language on the text of a compiled body: the tokens of the     *)
(* text, and the value of the expression they form under the operator      *)
(* precedence of JavaScript (loosest first: ||, &&, equality, relational,  *)
(* additive, multiplicative, prefix operators).                            *)
(***************************************************************************)
IdentStart == Letters \cup {"_", "$"}
IdentPart == Letters \cup Digits \cup {"_", "$", "."}
JsPunct3 == {"===", "!=="}
\* ++ and -- are tokens of the language, though no expression here may use them.
JsPunct2 == {"<=", ">=", "&&", "||", "++", "--"}

\* The length of the punctuator at position k.
JsPunctLen(text, k) ==
  IF SubSeq(text, k, Min2(k + 2, Len(text))) \in JsPunct3 THEN 3
  ELSE IF SubSeq(text, k, Min2(k + 1, Len(text))) \in JsPunct2 THEN 2
  ELSE 1

\* The position of the quote that closes the string opened before k.
RECURSIVE QuoteEnd(_, _)
QuoteEnd(text, k) ==
  IF k > Len(text) \/ CharAt(text, k) = "\"" THEN k ELSE QuoteEnd(text, k + 1)

\* The end (exclusive) of the token that starts at k.
JsTokenEnd(text, k) ==
  IF CharAt(text, k) \in Digits THEN SkipWhile(text, k, Digits)
  ELSE IF CharAt(text, k) \in IdentStart THEN SkipWhile(text, k, IdentPart)
  ELSE IF CharAt(text, k) = "\"" THEN QuoteEnd(text, k + 1) + 1
  ELSE k + JsPunctLen(text, k)

\* A string token is kept without its closing quote.
RECURSIVE JsLexFrom(_, _, _)

JsLexToken(text, k, toks, e) ==
  JsLexFrom(text, e,
    Append(toks, IF CharAt(text, k) = "\"" THEN SubSeq(text, k, e - 2)
                 ELSE SubSeq(text, k, e - 1)))

JsLexFrom(text, k, toks) ==
  IF k > Len(text) THEN toks
  ELSE IF CharAt(text, k) \in SpaceChars THEN JsLexFrom(text, k + 1, toks)
  ELSE JsLexToken(text, k, toks, JsTokenEnd(text, k))

JsLex(text) == JsLexFrom(text, 1, <<>>)

\* The value of a (sub)expression and the index of the token after it, or
\* the error raised.
JsOk(v, k) == [out |-> "ok", v |-> v, k |-> k]
JsFail(kind, k) == [out |-> kind, v |-> Undef, k |-> k]
JsTok(t, k) == IF k >= 1 /\ k <= Len(t) THEN t[k] ELSE ""

\* The binary operators of the host language, loosest level first.
JsOps ==
  << {"||"}, {"&&"}, {"===", "!=="}, {"<", "<=", ">", ">="}, {"+", "-"}, {"*", "/", "%"} >>
JsOpsAt(level) == JsOps[level]
JsPrefixOps == {"-", "+", "!"}

\* ToNumber for numbers and booleans.
ToNum(v) == IF v.t = "boolean" THEN Num(v.n) ELSE v
IsInt(v) == v.t = "number" /\ v.s = ""

JsArith(op, a, b) ==
  IF ~(IsInt(a) /\ IsInt(b)) THEN Term(op, <<a, b>>)
  ELSE CASE op = "+" -> Num(a.n + b.n)
         [] op = "-" -> Num(a.n - b.n)
         [] op = "*" -> Num(a.n * b.n)
         [] op = "/" /\ a.n >= 0 /\ b.n > 0 /\ a.n % b.n = 0 -> Num(a.n \div b.n)
         [] op = "<" -> JsBool(a.n < b.n)
         [] op = "<=" -> JsBool(a.n <= b.n)
         [] op = ">" -> JsBool(a.n > b.n)
         [] op = ">=" -> JsBool(a.n >= b.n)
         [] OTHER -> Term(op, <<a, b>>)

JsBinary(op, a, b) ==
  CASE op = "||" -> IF Truthy(a) THEN a ELSE b
    [] op = "&&" -> IF Truthy(a) THEN b ELSE a
    [] op = "===" -> JsBool(a = b)
    [] op = "!==" -> JsBool(a # b)
    [] OTHER -> JsArith(op, ToNum(a), ToNum(b))

JsPrefix(op, a) ==
  CASE op = "!" -> JsBool(~Truthy(a))
    [] op = "+" -> ToNum(a)
    [] op = "-" -> IF IsInt(ToNum(a)) THEN Num(0 - ToNum(a).n) ELSE Term("-", <<a>>)

\* A scope: the values of the identifiers in scope (a parameter that is an
\* object is a function from property names to values), and the table `$`.
Scope(ids, func) == [ids |-> ids, func |-> func, check |-> FALSE]
\* The scope in which only the syntax of a text is decided.
NoScope == [ids |-> <<>>, func |-> <<>>, check |-> TRUE]

\* A reference base.prop (prop = "" for a plain identifier).
JsRefOf(base, prop) == [base |-> base, prop |-> prop]

JsSplit(tok, dot) ==
  IF dot > Len(tok) THEN JsRefOf(tok, "")
  ELSE JsRefOf(SubSeq(tok, 1, dot - 1), SubSeq(tok, dot + 1, Len(tok)))

\* The value of the reference.
JsGet(sc, ref) ==
  IF sc.check THEN JsOk(Num(0), 0)
  ELSE IF ref.base \notin DOMAIN sc.ids THEN JsFail("ReferenceError", 0)
  ELSE IF ref.prop = "" THEN JsOk(sc.ids[ref.base], 0)
  ELSE IF ref.prop \in DOMAIN sc.ids[ref.base] THEN JsOk(sc.ids[ref.base][ref.prop], 0)
  ELSE JsOk(Undef, 0)

\* The value of the call ref(args).
JsCall(sc, ref, args) ==
  IF sc.check THEN JsOk(Num(0), 0)
  ELSE IF ref.base = "$" THEN
    IF ref.prop \in DOMAIN sc.func THEN JsOk(Apply(sc.func[ref.prop], args), 0)
    ELSE JsFail("TypeError", 0)
  ELSE IF ref.base \in {"Math", "Number"} THEN
    JsOk(Apply(Fn(ref.base \o "." \o ref.prop), args), 0)
  ELSE JsFail("ReferenceError", 0)

RECURSIVE JsLevel(_, _, _, _)
RECURSIVE JsLoop(_, _, _, _)
RECURSIVE JsUnary(_, _, _)
RECURSIVE JsArgs(_, _, _, _)

JsLoopNext(t, level, sc, lhs, op, rhs) ==
  IF rhs.out # "ok" THEN rhs
  ELSE JsLoop(t, level, sc, JsOk(JsBinary(op, lhs.v, rhs.v), rhs.k))

\* lhs (op rhs)* at one level of precedence, grouping to the left.
JsLoop(t, level, sc, lhs) ==
  IF lhs.out # "ok" THEN lhs
  ELSE IF JsTok(t, lhs.k) \in JsOpsAt(level) THEN
    JsLoopNext(t, level, sc, lhs, JsTok(t, lhs.k), JsLevel(t, lhs.k + 1, level + 1, sc))
  ELSE lhs

JsLevel(t, k, level, sc) ==
  IF level > Len(JsOps) THEN JsUnary(t, k, sc)
  ELSE JsLoop(t, level, sc, JsLevel(t, k, level + 1, sc))

JsParen(t, r) ==
  IF r.out # "ok" THEN r
  ELSE IF JsTok(t, r.k) = ")" THEN JsOk(r.v, r.k + 1)
  ELSE JsFail("SyntaxError", r.k)

JsArgsNext(t, sc, acc, r) ==
  IF r.out # "ok" THEN r
  ELSE IF JsTok(t, r.k) = "," THEN JsArgs(t, r.k + 1, sc, Append(acc, r.v))
  ELSE IF JsTok(t, r.k) = ")" THEN JsOk(Append(acc, r.v), r.k + 1)
  ELSE JsFail("SyntaxError", r.k)

\* The arguments of a call, k being after the "(" or a ",".
JsArgs(t, k, sc, acc) ==
  IF JsTok(t, k) = ")" /\ acc = <<>> THEN JsOk(acc, k + 1)
  ELSE JsArgsNext(t, sc, acc, JsLevel(t, k, 1, sc))

JsCallArgs(sc, ref, a) ==
  IF a.out # "ok" THEN a
  ELSE IF JsCall(sc, ref, a.v).out # "ok" THEN JsFail(JsCall(sc, ref, a.v).out, a.k)
  ELSE JsOk(JsCall(sc, ref, a.v).v, a.k)

\* A reference read or called; k is the index of the token after it.
JsUse(t, k, sc, ref) ==
  IF JsTok(t, k) = "(" THEN JsCallArgs(sc, ref, JsArgs(t, k + 1, sc, <<>>))
  ELSE IF JsGet(sc, ref).out # "ok" THEN JsFail(JsGet(sc, ref).out, k)
  ELSE JsOk(JsGet(sc, ref).v, k)

\* An identifier, a dotted path, or base["prop"].
JsRef(t, k, sc) ==
  IF JsTok(t, k + 1) = "[" THEN
    IF IsPrefix("\"", JsTok(t, k + 2)) /\ JsTok(t, k + 3) = "]" THEN
      JsUse(t, k + 4, sc, JsRefOf(JsTok(t, k), SubSeq(JsTok(t, k + 2), 2, Len(JsTok(t, k + 2)))))
    ELSE JsFail("SyntaxError", k + 2)
  ELSE JsUse(t, k + 1, sc, JsSplit(JsTok(t, k), SkipWhile(JsTok(t, k), 1, IdentPart \ {"."})))

JsPrimary(t, k, sc) ==
  IF JsTok(t, k) = "(" THEN JsParen(t, JsLevel(t, k + 1, 1, sc))
  ELSE IF JsTok(t, k) = "" THEN JsFail("SyntaxError", k)
  ELSE IF SubSeq(JsTok(t, k), 1, 1) \in Digits THEN JsOk(Num(DecVal(JsTok(t, k), 0)), k + 1)
  ELSE IF SubSeq(JsTok(t, k), 1, 1) \in IdentStart THEN JsRef(t, k, sc)
  ELSE JsFail("SyntaxError", k)

JsUnaryApply(op, r) ==
  IF r.out # "ok" THEN r ELSE JsOk(JsPrefix(op, r.v), r.k)

JsUnary(t, k, sc) ==
  IF JsTok(t, k) \in JsPrefixOps THEN JsUnaryApply(JsTok(t, k), JsUnary(t, k + 1, sc))
  ELSE JsPrimary(t, k, sc)

\* The whole text must be one expression.
JsWhole(t, r) ==
  IF r.out # "ok" THEN r
  ELSE IF r.k <= Len(t) THEN JsFail("SyntaxError", r.k)
  ELSE r

JsEvalTokens(t, sc) == JsWhole(t, JsLevel(t, 1, 1, sc))

\* The value of `return <text>;` in the scope.
JsEval(text, sc) == JsEvalTokens(JsLex(text), sc)

(***************************************************************************)
(* Compiled functions.  A function holds its parameter names, the text of  *)
(* its body and the reference to the `func` table it closes over as `$`.   *)
(***************************************************************************)
Compiled(params, body, func) ==
  [out |-> "ok", params |-> params, body |-> body, func |-> func, msg |-> ""]
NotCompiledFor(kind, msg) ==
  [out |-> kind, params |-> <<>>, body |-> "", func |-> 0, msg |-> msg]
NotCompiled(kind) == NotCompiledFor(kind, "")

\* Lines 238-248: Function("$", "return function(...) { return body; }")
\* throws on a text that is no expression, which is rethrown as ExpressionError.
onFuncCompileBody(w, e, params, body) ==
  IF body.out # "ok" THEN NotCompiledFor(body.out, body.msg)
  ELSE IF JsEval(body.text, NoScope).out # "ok" THEN NotCompiled("ExpressionError")
  ELSE Compiled(params, body.text, w.envs[e.env].func)

\* An array of the host language.
ArrayOf(items) == [t |-> "array", n |-> 0, s |-> "", items |-> items]

\* signature = varr ? varr.join(", ") : vmap
onFuncCompile(w, e, vmap, varr) ==
  onFuncCompileBody(w, e, IF varr.t = "array" THEN varr.items ELSE <<vmap.name>>,
                    onNodeCompile(e.root, vmap))

Ident(k) == "_" \o ToString(k)

\* hasOwn.call(vmap, args[k]) in the loop of compile: an earlier element of
\* the array is the same name.
Repeated(items, k) == \E j \in 1..(k - 1) : items[j] = items[k]

\* The array holds no name twice: the loop of compile() reaches its end.
compile_noDuplicateCheck(w, e, args) ==
  IF args.t # "array" THEN
    NotCompiledFor("ExpressionError", "Argument 'args' must be an array, not '" \o args.t \o "'")
  ELSE onFuncCompile(w, e,
         VMapObject([name \in {args.items[k] : k \in 1..Len(args.items)} |->
                       Ident(CHOOSE k \in 1..Len(args.items) :
                               args.items[k] = name /\ ~\E j \in (k + 1)..Len(args.items) :
                                                          args.items[j] = name)]),
         ArrayOf([k \in 1..Len(args.items) |-> Ident(k)]))

\* Expression.compile(args)
compile(w, e, args) ==
  IF args.t # "array" THEN
    NotCompiledFor("ExpressionError", "Argument 'args' must be an array, not '" \o args.t \o "'")
  ELSE IF \E k \in 1..Len(args.items) : Repeated(args.items, k) THEN
    NotCompiledFor("ExpressionError",
      "Variable '"
        \o args.items[CHOOSE k \in 1..Len(args.items) :
                        /\ Repeated(args.items, k)
                        /\ \A j \in 1..(k - 1) : ~Repeated(args.items, j)]
        \o "' provided multiple times")
  ELSE onFuncCompile(w, e,
         VMapObject([name \in {args.items[k] : k \in 1..Len(args.items)} |->
                       Ident(CHOOSE k \in 1..Len(args.items) : args.items[k] = name)]),
         ArrayOf([k \in 1..Len(args.items) |-> Ident(k)]))

\* The object kept in $vars: the Var node of each name.
VarsOf(map) == [t |-> "object", n |-> 0, s |-> "vars", map |-> map]

\* $onNodeInfo(node): this.$vars[node.name] = node for every Var node, in the
\* order of the traversal.
RECURSIVE onNodeInfo(_, _)
RECURSIVE onNodeInfoArgs(_, _, _)

onNodeInfoArgs(args, k, found) ==
  IF k > Len(args) THEN found
  ELSE onNodeInfoArgs(args, k + 1, onNodeInfo(args[k], found))

onNodeInfo(node, found) ==
  IF isValue(node) THEN found
  ELSE CASE node.type = "Var" -> (node.name :> node) @@ found
         [] node.type = "Unary" -> onNodeInfo(node.value, found)
         [] node.type = "Binary" -> onNodeInfo(node.right, onNodeInfo(node.left, found))
         [] node.type = "Call" -> onNodeInfoArgs(node.args, 1, found)

\* The getter `vars`: collected once, kept in $vars.
varsGetter(e) ==
  IF e.varsCache = Null THEN VarsOf(onNodeInfo(e.root, <<>>))
  ELSE e.varsCache

\* The getter `eval`: compiled once, kept in $eval.
evalGetter(w, e) ==
  IF e.evalCache = Null THEN onFuncCompile(w, e, VMapString("v"), Null)
  ELSE e.evalCache

\* fn(args...): the value of the body with the parameters bound.
CallFunction(w, fn, args) ==
  JsEval(fn.body,
         Scope([p \in {fn.params[k] : k \in 1..Len(fn.params)} |->
                  LET k == CHOOSE j \in 1..Len(fn.params) : fn.params[j] = p
                  IN IF k <= Len(args) THEN args[k] ELSE Undef],
               w.tabs[fn.func].props))

(***************************************************************************)
(* The registry as a state machine: calls on the base environment and on   *)
(* its clones, the arguments drawn from the sets below.                    *)
(***************************************************************************)
Def(fields) == fields @@ NoFields

ValidC == Def([type |-> Str("Constant"), name |-> Str("K"), value |-> Num(2)])
ValidO ==
  Def([type |-> Str("Operator"), name |-> Str("^"), prec |-> Num(4), rtl |-> JsBool(FALSE),
       args |-> Num(2), amax |-> Num(2), emit |-> Str("@1 ^ @2"), eval |-> Fn("xor")])
ValidF ==
  Def([type |-> Str("Function"), name |-> Str("h"), args |-> Num(1), amax |-> Num(1),
       emit |-> Str("$.h(@args)"), eval |-> Fn("double")])

\* What add() requires of each field, by the type of the definition.
Required(type) ==
  CASE type = Str("Constant") -> {"value"}
    [] type = Str("Operator") -> {"prec", "rtl", "args", "amax", "emit", "eval"}
    [] type = Str("Function") -> {"args", "amax", "emit", "eval"}
    [] OTHER -> {}

FieldType(f) ==
  CASE f \in {"value", "prec", "args", "amax"} -> "number"
    [] f = "rtl" -> "boolean"
    [] f = "emit" -> "string"
    [] f = "eval" -> "function"

\* A value of another type than the field's.
WrongTyped(f) == IF FieldType(f) = "number" THEN Str("1") ELSE Num(1)

Broken(d) ==
  UNION { {[d EXCEPT ![f] = Undef], [d EXCEPT ![f] = WrongTyped(f)]} : f \in Required(d.type) }

AddInputs ==
  {ValidC, ValidO, ValidF}
    \cup Broken(ValidC) \cup Broken(ValidO) \cup Broken(ValidF)
    \cup { [ValidC EXCEPT !.name = n] : n \in {Undef, Num(7), Str("PI")} }
    \cup { [ValidF EXCEPT !.name = n] : n \in {Num(7), Str("sin")} }
    \cup { [ValidO EXCEPT !.type = t] : t \in {Undef, Str("Macro")} }

ConstantInputs ==
  { <<Def([name |-> Str("K"), value |-> Num(2)]), Undef>>,
    <<Str("K"), Num(2)>>,
    <<Str("K"), Undef>>,
    <<Def([name |-> Str("PI"), value |-> Num(3)]), Undef>> }

UnaryInputs ==
  { Def([name |-> Str("~"), prec |-> Num(3), rtl |-> JsBool(TRUE), eval |-> Fn("neg")]),
    Def([name |-> Str("~"), eval |-> Fn("neg")]),
    Def([name |-> Str("~"), prec |-> Num(3), safe |-> JsBool(FALSE), eval |-> Fn("neg"),
         emit |-> Str("-(@1)")]),
    Def([name |-> Str("~"), prec |-> Num(3)]),
    Def([name |-> Str("-"), prec |-> Num(3), eval |-> Fn("neg")]) }

BinaryInputs ==
  { Def([name |-> Str("**"), prec |-> Num(2), rtl |-> JsBool(TRUE), safe |-> JsBool(TRUE),
         eval |-> Fn("Math.pow")]),
    Def([name |-> Str("**"), eval |-> Fn("Math.pow")]),
    Def([name |-> Str("**"), prec |-> Num(2), rtl |-> JsBool(TRUE), safe |-> JsBool(FALSE),
         eval |-> Fn("Math.pow")]),
    Def([name |-> Str("**"), prec |-> Num(2)]),
    Def([name |-> Str("+"), prec |-> Num(6), eval |-> Fn("add")]) }

FunctionInputs ==
  { Def([name |-> Str("g"), args |-> Num(1), eval |-> Fn("double")]),
    Def([name |-> Str("g"), args |-> Num(1), safe |-> JsBool(FALSE), eval |-> Fn("double")]),
    Def([name |-> Str("g"), eval |-> Fn("double")]),
    Def([name |-> Str("sin"), args |-> Num(1), eval |-> Fn("double")]) }

Names == {"K", "PI", "~", "unary~", "**", "g", "nosuch"}

ExpInputs == {"g(1 + 2)", "~1", "2 ** 3", "K + x", "g(x) + 1", "2 +"}

CMaps == {NoMap, [x |-> Num(1)]}

W == World(envs, tabs)
EnvIds == 1..Len(envs)

NoExpression == [out |-> "none", msg |-> "", position |-> -1, exp |-> Null]
NoParse == [input |-> <<>>, done |-> FALSE]

Called(op, i, arg, r) ==
  [op |-> op, env |-> i, arg |-> arg, out |-> r.out, ret |-> r.ret]

\* A call that acts on the registry only.
Commit(op, i, arg, r) ==
  /\ nops < MaxOps
  /\ nops' = nops + 1
  /\ envs' = r.w.envs
  /\ tabs' = r.w.tabs
  /\ last' = Called(op, i, arg, r)
  /\ UNCHANGED <<px, ex>>

Init ==
  /\ envs = BaseWorld.envs
  /\ tabs = BaseWorld.tabs
  /\ last = [op |-> "load", env |-> 1, arg |-> Undef, out |-> "ok", ret |-> Num(1)]
  /\ nops = 0
  /\ px = NoParse
  /\ ex = NoExpression

Add == \E i \in EnvIds, def \in AddInputs : Commit("add", i, def, add(W, i, def))

AddConstant ==
  \E i \in EnvIds, a \in ConstantInputs :
    Commit("addConstant", i, a, addConstant(W, i, a[1], a[2]))

AddUnary == \E i \in EnvIds, def \in UnaryInputs : Commit("addUnary", i, def, addUnary(W, i, def))

AddBinary ==
  \E i \in EnvIds, def \in BinaryInputs : Commit("addBinary", i, def, addBinary(W, i, def))

AddFunction ==
  \E i \in EnvIds, def \in FunctionInputs :
    Commit("addFunction", i, def, addFunction(W, i, def))

Del == \E i \in EnvIds, name \in Names : Commit("del", i, Str(name), del(W, i, name))

Freeze == \E i \in EnvIds : Commit("freeze", i, Undef, freeze(W, i))

Clone ==
  \E i \in EnvIds :
    /\ Len(envs) < MaxEnvs
    /\ Commit("clone", i, Undef, clone(W, i))

Get ==
  \E i \in EnvIds, name \in Names :
    Commit("get", i, Str(name), Ok(W, get(W, i, name)))

\* A call of exp(): the registry stays, the result is the Expression.
Return(op, i, arg, r) ==
  /\ nops < MaxOps
  /\ nops' = nops + 1
  /\ ex' = r
  /\ last' = [op |-> op, env |-> i, arg |-> arg, out |-> r.out, ret |-> Undef]
  /\ UNCHANGED <<envs, tabs, px>>

Exp ==
  \E i \in EnvIds, input \in ExpInputs :
    Return("exp", i, Str(input), exp(W, i, input, NoOptions))

\* fold(cmap) on the Expression the last exp() returned.
Fold ==
  \E cmap \in CMaps :
    /\ ex.out = "ok"
    /\ Return("fold", ex.exp.env, cmap, [ex EXCEPT !.exp = fold(ex.exp, cmap)])

Next ==
  \/ Add
  \/ AddConstant
  \/ AddUnary
  \/ AddBinary
  \/ AddFunction
  \/ Del
  \/ Freeze
  \/ Clone
  \/ Get
  \/ Exp
  \/ Fold

Spec == Init /\ [][Next]_vars

(***************************************************************************)
(* The parser on chains of binary operators: operand (op operand)*, the    *)
(* operands being the literals 1, 2, ...  The registry is a clone of the   *)
(* base one with the right-associative ** of the tests.                    *)
(***************************************************************************)
PowDef ==
  Def([name |-> Str("**"), prec |-> Num(2), rtl |-> JsBool(TRUE), safe |-> JsBool(TRUE),
       eval |-> Fn("Math.pow")])

\* xex.clone().addBinary({ name: "**", prec: 2, rtl: true, safe: true, eval: Math.pow })
ParseWorld == addBinary(clone(BaseWorld, 1).w, 2, PowDef).w

ChainOps == {"+", "-", "*", "**", "<"}
Chains == UNION { [1..n -> ChainOps] : n \in 0..MaxChain }

\* The text of the chain from its k-th operand on.
RECURSIVE Render(_, _)
Render(ops, k) ==
  IF k > Len(ops) THEN ToString(k)
  ELSE ToString(k) \o " " \o ops[k] \o " " \o Render(ops, k + 1)

Loaded == [op |-> "load", env |-> 1, arg |-> Undef, out |-> "ok", ret |-> Num(1)]

InitParse ==
  /\ envs = ParseWorld.envs
  /\ tabs = ParseWorld.tabs
  /\ last = Loaded
  /\ nops = 0
  /\ px \in { [input |-> c, done |-> FALSE] : c \in Chains }
  /\ ex = NoExpression

\* env.exp(input, { noFolding: true })
ParseChain ==
  /\ ~px.done
  /\ px' = [px EXCEPT !.done = TRUE]
  /\ nops' = nops + 1
  /\ ex' = exp(W, 2, Render(px.input, 1), [NoOptions EXCEPT !.noFolding = TRUE])
  /\ last' = [op |-> "exp", env |-> 2, arg |-> Str(Render(px.input, 1)), out |-> ex'.out,
              ret |-> Undef]
  /\ UNCHANGED <<envs, tabs>>

NextParse == ParseChain

SpecParse == InitParse /\ [][NextParse]_vars

(***************************************************************************)
(* Evaluation: an expression over x, y and z is parsed by the base         *)
(* registry, then evaluated through the getter `eval` (one object of       *)
(* values) and through compile(["x", "y", "z"]) (positional values).       *)
(***************************************************************************)
MaxVal == 2
EvalOps == {"+", "-", "*", "<", "==", "&&"}

EvalInputs ==
  UNION { { "(x " \o a \o " y) " \o b \o " z",
            "x " \o a \o " (y " \o b \o " z)",
            "x " \o a \o " y " \o b \o " z",
            "-(x " \o a \o " y) " \o b \o " 2",
            "!x " \o a \o " -y " \o b \o " z" } : a \in EvalOps, b \in EvalOps }

Values == { [x |-> Num(1), y |-> Num(MaxVal), z |-> Num(MaxVal + 1)],
            [x |-> Num(0), y |-> Num(1), z |-> Num(0)],
            [x |-> Num(MaxVal), y |-> Num(MaxVal), z |-> Num(1)] }

VarNames == <<"x", "y", "z">>

InitEval ==
  /\ envs = BaseWorld.envs
  /\ tabs = BaseWorld.tabs
  /\ last = Loaded
  /\ nops = 0
  /\ px \in { [input |-> s, vals |-> v] : s \in EvalInputs, v \in Values }
  /\ ex = NoExpression

\* xex.exp(input)
EvalExp ==
  /\ ex.out = "none"
  /\ nops' = nops + 1
  /\ ex' = exp(W, 1, px.input, NoOptions)
  /\ last' = [op |-> "exp", env |-> 1, arg |-> Str(px.input), out |-> ex'.out, ret |-> Undef]
  /\ UNCHANGED <<envs, tabs, px>>

\* The call ended with the value or the error of `r`.
Returned(op, arg, fn, r) ==
  /\ nops' = nops + 1
  /\ last' = [op |-> op, env |-> 1, arg |-> arg,
              out |-> IF fn.out # "ok" THEN fn.out ELSE r.out,
              ret |-> IF fn.out # "ok" THEN Undef ELSE r.v]
  /\ UNCHANGED <<envs, tabs, px>>

EvalCallOf(fn) ==
  /\ ex' = [ex EXCEPT !.exp.evalCache = IF fn.out = "ok" THEN fn ELSE @]
  /\ Returned("eval", px.vals, fn, CallFunction(W, fn, <<px.vals>>))

\* exp.eval(vals)
EvalCall ==
  /\ ex.out = "ok"
  /\ nops < MaxOps
  /\ last.op \in {"exp", "compile"}
  /\ EvalCallOf(evalGetter(W, ex.exp))

CompileCallOf(fn) ==
  /\ ex' = ex
  /\ Returned("compile", ArrayOf(VarNames), fn,
              CallFunction(W, fn, [k \in 1..Len(VarNames) |-> px.vals[VarNames[k]]]))

\* exp.compile(["x", "y", "z"])(vals.x, vals.y, vals.z)
CompileCall ==
  /\ ex.out = "ok"
  /\ nops < MaxOps
  /\ last.op \in {"exp", "eval"}
  /\ CompileCallOf(compile(W, ex.exp, ArrayOf(VarNames)))

NextEval ==
  \/ EvalExp
  \/ EvalCall
  \/ CompileCall

SpecEval == InitEval /\ [][NextEval]_vars

(***************************************************************************)
(* Folding: an expression over x, y and z is parsed by a clone of the base *)
(* registry that also has the unsafe function u, then folded with          *)
(* substitution maps; the getter `eval` fills the cache in between.        *)
(***************************************************************************)
MaxFolds == 2

UnsafeDef ==
  Def([name |-> Str("u"), args |-> Num(1), safe |-> JsBool(FALSE), eval |-> Fn("double")])

\* xex.clone().addFunction({ name: "u", args: 1, safe: false, eval: ... })
FoldWorld == addFunction(clone(BaseWorld, 1).w, 2, UnsafeDef).w

FoldInputs ==
  { "x + y", "x * (y + 1)", "-x + abs(y)", "u(x) + y", "u(1 + 2) * x",
    "(x < y) && !z", "x + 1 * 2", "pow(x, 2) - z", "-(x - -y)", "7" }

FoldMaps ==
  { NoMap, [x |-> Num(1)], [x |-> Num(1), y |-> Num(2)],
    [x |-> Num(2), y |-> Num(1), z |-> Num(0)] }

NoFold == [has |-> FALSE, map |-> NoMap]

InitFold ==
  /\ envs = FoldWorld.envs
  /\ tabs = FoldWorld.tabs
  /\ last = Loaded
  /\ nops = 0
  /\ px \in { [input |-> s, noFolding |-> b, folds |-> 0, prev |-> NoFold] :
                s \in FoldInputs, b \in BOOLEAN }
  /\ ex = NoExpression

\* env.exp(input, { noFolding: ... })
FoldExp ==
  /\ ex.out = "none"
  /\ nops' = nops + 1
  /\ ex' = exp(W, 2, px.input, [NoOptions EXCEPT !.noFolding = px.noFolding])
  /\ last' = [op |-> "exp", env |-> 2, arg |-> Str(px.input), out |-> ex'.out, ret |-> Undef]
  /\ UNCHANGED <<envs, tabs, px>>

\* exp.fold(cmap)
FoldMap ==
  \E cmap \in FoldMaps :
    /\ ex.out = "ok"
    /\ px.folds < MaxFolds
    /\ nops' = nops + 1
    /\ ex' = [ex EXCEPT !.exp = fold(ex.exp, cmap)]
    /\ px' = [px EXCEPT !.folds = @ + 1, !.prev = [has |-> TRUE, map |-> cmap]]
    /\ last' = [op |-> "fold", env |-> 2, arg |-> cmap, out |-> "ok", ret |-> Undef]
    /\ UNCHANGED <<envs, tabs>>

FoldEvalOf(fn) ==
  /\ fn.out = "ok"
  /\ nops' = nops + 1
  /\ ex' = [ex EXCEPT !.exp.evalCache = fn]
  /\ last' = [op |-> "eval", env |-> 2, arg |-> Undef, out |-> "ok", ret |-> Undef]
  /\ UNCHANGED <<envs, tabs, px>>

\* exp.eval: the getter compiles the tree and keeps the function in $eval.
FoldEval ==
  /\ ex.out = "ok"
  /\ ex.exp.evalCache = Null
  /\ FoldEvalOf(evalGetter(W, ex.exp))

\* exp.vars: the getter collects the Var nodes and keeps them in $vars.
FoldVars ==
  /\ ex.out = "ok"
  /\ ex.exp.varsCache = Null
  /\ nops' = nops + 1
  /\ ex' = [ex EXCEPT !.exp.varsCache = varsGetter(ex.exp)]
  /\ last' = [op |-> "vars", env |-> 2, arg |-> Undef, out |-> "ok", ret |-> Undef]
  /\ UNCHANGED <<envs, tabs, px>>

NextFold ==
  \/ FoldExp
  \/ FoldMap
  \/ FoldEval
  \/ FoldVars

SpecFold == InitFold /\ [][NextFold]_vars

(***************************************************************************)
(* Expression trees as objects.  fold() writes into the nodes it visits    *)
(* and clone() allocates new ones, so here the Unary, Binary and Call      *)
(* nodes live in a heap and refer to their operands by address; a number   *)
(* or a Var node (never written to) stands for itself.                     *)
(***************************************************************************)
InHeap(heap, node) == [heap |-> heap, node |-> node]

\* A new object: newUnary(), newBinary() or newCall() returned it.
Alloc(heap, cell) == InHeap(Append(heap, cell), Ref(Len(heap) + 1))

IsLiteral(x) == ~IsRef(x) /\ isValue(x)

RECURSIVE StoreNode(_, _)
RECURSIVE StoreArgs(_, _, _)

StoreUnary(n, v) == Alloc(v.heap, newUnary(n.name, n.info, v.node))
StoreBinaryEnd(n, l, r) == Alloc(r.heap, newBinary(n.name, n.info, l.node, r.node))
StoreBinary(n, l) == StoreBinaryEnd(n, l, StoreNode(l.heap, n.right))
StoreCall(n, a) == Alloc(a.heap, newCall(n.name, n.info, a.node))
StoreArgsNext(args, acc, r) == StoreArgs(r.heap, Tail(args), Append(acc, r.node))

StoreArgs(heap, args, acc) ==
  IF args = <<>> THEN InHeap(heap, acc)
  ELSE StoreArgsNext(args, acc, StoreNode(heap, Head(args)))

\* The objects of the tree the parser returned.
StoreNode(heap, n) ==
  IF ~IsNode(n) \/ n.type = "Var" THEN InHeap(heap, n)
  ELSE CASE n.type = "Unary" -> StoreUnary(n, StoreNode(heap, n.value))
         [] n.type = "Binary" -> StoreBinary(n, StoreNode(heap, n.left))
         [] n.type = "Call" -> StoreCall(n, StoreArgs(heap, n.args, <<>>))

RECURSIVE cloneNode(_, _)
RECURSIVE CloneArgs(_, _, _)

CloneUnary(n, v) == Alloc(v.heap, newUnary(n.name, n.info, v.node))
CloneBinaryEnd(n, l, r) == Alloc(r.heap, newBinary(n.name, n.info, l.node, r.node))
CloneBinary(n, l) == CloneBinaryEnd(n, l, cloneNode(l.heap, n.right))
CloneCall(n, a) == Alloc(a.heap, newCall(n.name, n.info, a.node))
CloneArgsNext(args, acc, r) == CloneArgs(r.heap, Tail(args), Append(acc, r.node))

\* node.args.map(cloneNode)
CloneArgs(heap, args, acc) ==
  IF args = <<>> THEN InHeap(heap, acc)
  ELSE CloneArgsNext(args, acc, cloneNode(heap, Head(args)))

\* A variant of cloneNode() that returns the node it was given.
cloneNode_sameNode(heap, x) == InHeap(heap, x)

cloneNode(heap, x) ==
  IF ~IsRef(x) THEN InHeap(heap, x)
  ELSE CASE heap[x.ref].type = "Unary" ->
              CloneUnary(heap[x.ref], cloneNode(heap, heap[x.ref].value))
         [] heap[x.ref].type = "Binary" ->
              CloneBinary(heap[x.ref], cloneNode(heap, heap[x.ref].left))
         [] heap[x.ref].type = "Call" ->
              CloneCall(heap[x.ref], CloneArgs(heap, heap[x.ref].args, <<>>))

\* The result of $onNodeFold on objects: what replaces the node, the dirty
\* flag, the callbacks invoked, and the heap after the writes.
FoldedIn(heap, node, dirty, calls) ==
  [heap |-> heap, node |-> node, dirty |-> dirty, calls |-> calls]

RECURSIVE onNodeFoldIn(_, _, _)
RECURSIVE FoldArgsIn(_, _, _, _, _, _)

\* const child = node.value = this.$onNodeFold(node.value, cmap)
FoldUnaryIn(a, c) ==
  IF FoldSafe(c.heap[a].info) /\ IsLiteral(c.node) THEN
    FoldedIn([c.heap EXCEPT ![a].value = c.node],
             Apply(c.heap[a].info.eval, <<c.node>>), TRUE,
             Append(c.calls, Invoked(c.heap[a])))
  ELSE FoldedIn([c.heap EXCEPT ![a].value = c.node], Ref(a), c.dirty, c.calls)

\* const right = node.right = this.$onNodeFold(node.right, cmap), and the test
FoldBinaryIn(a, l, r) ==
  IF FoldSafe(r.heap[a].info) /\ IsLiteral(l.node) /\ IsLiteral(r.node) THEN
    FoldedIn([r.heap EXCEPT ![a].right = r.node],
             Apply(r.heap[a].info.eval, <<l.node, r.node>>), TRUE,
             Append(l.calls \o r.calls, Invoked(r.heap[a])))
  ELSE FoldedIn([r.heap EXCEPT ![a].right = r.node], Ref(a),
                l.dirty \/ r.dirty, l.calls \o r.calls)

\* const left = node.left = this.$onNodeFold(node.left, cmap)
FoldLeftIn(a, l, cmap) ==
  FoldBinaryIn(a, l, onNodeFoldIn([l.heap EXCEPT ![a].left = l.node],
                                  l.heap[a].right, cmap))

\* if (info.safe && args.every(isValue))
FoldCallIn(heap, a, dirty, calls) ==
  IF FoldSafe(heap[a].info) /\ (\A k \in 1..Len(heap[a].args) : IsLiteral(heap[a].args[k])) THEN
    FoldedIn(heap, Apply(heap[a].info.eval, heap[a].args), TRUE,
             Append(calls, Invoked(heap[a])))
  ELSE FoldedIn(heap, Ref(a), dirty, calls)

\* args[i] = this.$onNodeFold(args[i], cmap)
FoldArgIn(a, k, cmap, dirty, calls, r) ==
  FoldArgsIn([r.heap EXCEPT ![a].args[k] = r.node], a, k + 1, cmap,
             dirty \/ r.dirty, calls \o r.calls)

FoldArgsIn(heap, a, k, cmap, dirty, calls) ==
  IF k > Len(heap[a].args) THEN FoldCallIn(heap, a, dirty, calls)
  ELSE FoldArgIn(a, k, cmap, dirty, calls, onNodeFoldIn(heap, heap[a].args[k], cmap))

\* Expression.$onNodeFold on the objects of the heap.
onNodeFoldIn(heap, x, cmap) ==
  IF IsRef(x) THEN
    CASE heap[x.ref].type = "Unary" ->
           FoldUnaryIn(x.ref, onNodeFoldIn(heap, heap[x.ref].value, cmap))
      [] heap[x.ref].type = "Binary" ->
           FoldLeftIn(x.ref, onNodeFoldIn(heap, heap[x.ref].left, cmap), cmap)
      [] heap[x.ref].type = "Call" -> FoldArgsIn(heap, x.ref, 1, cmap, FALSE, <<>>)
  ELSE IF IsNode(x) /\ x.name \in DOMAIN cmap THEN FoldedIn(heap, cmap[x.name], TRUE, <<>>)
  ELSE FoldedIn(heap, x, FALSE, <<>>)

\* The tree below a node of the heap.
RECURSIVE TreeOf(_, _)
TreeOf(heap, x) ==
  IF ~IsRef(x) THEN x
  ELSE CASE heap[x.ref].type = "Unary" ->
              [heap[x.ref] EXCEPT !.value = TreeOf(heap, @)]
         [] heap[x.ref].type = "Binary" ->
              [heap[x.ref] EXCEPT !.left = TreeOf(heap, @), !.right = TreeOf(heap, @)]
         [] heap[x.ref].type = "Call" ->
              [heap[x.ref] EXCEPT !.args = [k \in 1..Len(@) |-> TreeOf(heap, @[k])]]

\* The objects reachable from a node of the heap.
RECURSIVE CellsOf(_, _)
CellsOf(heap, x) ==
  IF ~IsRef(x) THEN {}
  ELSE {x.ref} \cup
       CASE heap[x.ref].type = "Unary" -> CellsOf(heap, heap[x.ref].value)
         [] heap[x.ref].type = "Binary" ->
              CellsOf(heap, heap[x.ref].left) \cup CellsOf(heap, heap[x.ref].right)
         [] heap[x.ref].type = "Call" ->
              UNION { CellsOf(heap, heap[x.ref].args[k]) : k \in 1..Len(heap[x.ref].args) }

(***************************************************************************)
(* Cloning: an expression is parsed, cloned once, and the original and the *)
(* clone are folded in any order.                                          *)
(***************************************************************************)
CloneInputs ==
  { "x + y * 2", "-(x + 1) * y", "max(x, y + 1, 2)", "u(x) + x", "(1 + 2) * x",
    "x", "-x", "u(1 + 2)" }

CloneMaps == { NoMap, [x |-> Num(1)], [x |-> Num(1), y |-> Num(2)] }

NoObjects == [out |-> "none", heap |-> <<>>, e |-> Null, c |-> Null]

InitClone ==
  /\ envs = FoldWorld.envs
  /\ tabs = FoldWorld.tabs
  /\ last = Loaded
  /\ nops = 0
  /\ px \in { [input |-> s, noFolding |-> b, folds |-> 0] : s \in CloneInputs, b \in BOOLEAN }
  /\ ex = NoObjects

\* The Expression exp() returned, its nodes being objects.
Objects(r, st) ==
  [out |-> r.out, heap |-> st.heap,
   e |-> IF r.out = "ok" THEN [r.exp EXCEPT !.root = st.node] ELSE Null, c |-> Null]

ObjectsOf(r) ==
  Objects(r, StoreNode(<<>>, IF r.out = "ok" THEN r.exp.root ELSE Null))

\* e = env.exp(input, { noFolding: ... })
CloneExp ==
  /\ ex.out = "none"
  /\ nops' = nops + 1
  /\ ex' = ObjectsOf(exp(W, 2, px.input, [NoOptions EXCEPT !.noFolding = px.noFolding]))
  /\ last' = [op |-> "exp", env |-> 2, arg |-> Str(px.input), out |-> ex'.out, ret |-> Undef]
  /\ UNCHANGED <<envs, tabs, px>>

\* new Expression(this.env, cloneNode(this.root))
CloneOf(cl) ==
  /\ ex' = [ex EXCEPT !.heap = cl.heap, !.c = newExpression(ex.e.env, cl.node)]
  /\ last' = [op |-> "clone", env |-> 2, arg |-> Undef, out |-> "ok", ret |-> Undef]
  /\ nops' = nops + 1
  /\ UNCHANGED <<envs, tabs, px>>

\* c = e.clone()
CloneCopy ==
  /\ ex.out = "ok"
  /\ ex.c = Null
  /\ CloneOf(cloneNode(ex.heap, ex.e.root))

\* this.root = this.$onNodeFold(this.root, cmap); this._checkDirty()
FoldOf(who, cmap, f) ==
  /\ ex' = [ex EXCEPT !.heap = f.heap, ![who] = checkDirty(@, f)]
  /\ last' = [op |-> "fold", env |-> 2, arg |-> [on |-> who, cmap |-> cmap], out |-> "ok",
              ret |-> Undef]
  /\ nops' = nops + 1
  /\ px' = [px EXCEPT !.folds = @ + 1]
  /\ UNCHANGED <<envs, tabs>>

\* e.fold(cmap) or c.fold(cmap)
CloneFold ==
  \E who \in {"e", "c"}, cmap \in CloneMaps :
    /\ ex.out = "ok"
    /\ ex[who] # Null
    /\ px.folds < MaxFolds
    /\ FoldOf(who, cmap, onNodeFoldIn(ex.heap, ex[who].root, cmap))

NextClone ==
  \/ CloneExp
  \/ CloneCopy
  \/ CloneFold

SpecClone == InitClone /\ [][NextClone]_vars

(***************************************************************************)
(* Parsing: one call of exp() on an input and options of the sets below,   *)
(* by a clone of the base registry extended as the tests extend it.        *)
(***************************************************************************)
MaxArgs == 4

SyntaxCalls == <<
  Call("addConstant", CDef("K", Num(2))),
  Call("addFunction", [FDef("a", 0, Undef, "taken", Undef) EXCEPT !.safe = JsBool(FALSE)]),
  Call("addFunction", [FDef("b", 0, Undef, "notTaken", Undef) EXCEPT !.safe = JsBool(FALSE)]),
  Call("addFunction", FDef("sum", 1, NamedNum("Infinity"), "sum", Undef)),
  Call("addFunction", FDef("mid", 2, Num(3), "mid", Undef)),
  Call("addBinary", ODef("and", 13, 0, "and", Str("+(@1 && @2)"))) >>

SyntaxWorld == Chain(clone(BaseWorld, 1).w, 2, SyntaxCalls)

RawOptions == [NoOptions EXCEPT !.noFolding = TRUE]
Whitelist(names) == [NoOptions EXCEPT !.hasWhitelist = TRUE, !.varsWhitelist = names]

Case(input, options, kind, f, args) ==
  [input |-> input, options |-> options, kind |-> kind, f |-> f, args |-> args]

\* Inputs for the whitelist.
WhitelistInputs ==
  { "sin(z)", "x + y", "sin(x) * cos(y)", "sin(z) * cos(w)", "x + PI", "K * x", "y",
    "x + z * x", "-(x + w) + z", "max(x, y, z)", "1 + 2" }
Whitelists == { {"x"}, {"x", "y"}, {} }

\* Well-formed inputs, and what is made of them.
WellFormed == { "0", "x + y", "sin(x)", "(x)", "-x", "(0) * 2", "max(1, x)" }
Empty == { "", " ", "   " }
Trailing ==
  { v \o ")" : v \in WellFormed } \cup { v \o " 1" : v \in WellFormed } \cup
  { "sin.x", "x...", "x + y(", "x y" }
Missing ==
  { v \o "+" : v \in WellFormed } \cup { "*" \o v : v \in WellFormed } \cup
  { "-", "+", "x-", "x+)", "-)", "-()", "(-)", "()", ")" }
Unclosed ==
  { "(" \o v : v \in WellFormed } \cup { "sin(" \o v : v \in WellFormed } \cup
  { "(", "-(", "sin(", "sin(x+", "sin((x)", "sin(x (", "x+(x" }

\* Inputs for the resolution of identifiers.
IdentInputs ==
  { "sin(x)", "nosuch(x)", "K(1)", "PI(1)", "and(1, 2)", "sin", "sin + 1", "1 + sin",
    "K", "K + 1", "and", "and + 1", "x + x", "x * y + x", "sum(x, y, x)", "x", "K + x * K",
    "abs(K - x) + y", "unary(1)", "a() + a", "x + y * (x - y)" }

ArgTexts == { "1", "x", "y + 1" }
CallNames == { "a", "sum", "mid", "sin", "pow" }
ArgLists == UNION { [1..n -> ArgTexts] : n \in 0..MaxArgs }

RECURSIVE Join(_, _)
Join(args, k) ==
  IF k > Len(args) THEN ""
  ELSE args[k] \o (IF k < Len(args) THEN ", " ELSE "") \o Join(args, k + 1)

TernaryInputs == { "x ? a() : b()", "1 ? 2 : 4", "0 ? 2 : 4", "NaN ? 2 : 4", "x ? 1 + 1 : y" }

SyntaxCases ==
  { Case(s, Whitelist(l), "whitelist", "", <<>>) : s \in WhitelistInputs, l \in Whitelists }
    \cup { Case(s, o, "wellformed", "", <<>>) : s \in WellFormed, o \in {NoOptions, RawOptions} }
    \cup { Case(s, o, "empty", "", <<>>) : s \in Empty, o \in {NoOptions, RawOptions} }
    \cup { Case(s, o, "trailing", "", <<>>) : s \in Trailing, o \in {NoOptions, RawOptions} }
    \cup { Case(s, o, "missing", "", <<>>) : s \in Missing, o \in {NoOptions, RawOptions} }
    \cup { Case(s, o, "unclosed", "", <<>>) : s \in Unclosed, o \in {NoOptions, RawOptions} }
    \cup { Case(s, RawOptions, "ident", "", <<>>) : s \in IdentInputs }
    \cup { Case(f \o "(" \o Join(l, 1) \o ")", RawOptions, "call", f, l) :
             f \in CallNames, l \in ArgLists }
    \cup { Case(s, NoOptions, "ternary", "", <<>>) : s \in TernaryInputs }

InitSyntax ==
  /\ envs = SyntaxWorld.envs
  /\ tabs = SyntaxWorld.tabs
  /\ last = Loaded
  /\ nops = 0
  /\ px \in SyntaxCases
  /\ ex = NoExpression

\* env.exp(input, options)
SyntaxExp ==
  /\ ex.out = "none"
  /\ nops' = nops + 1
  /\ ex' = exp(W, 2, px.input, px.options)
  /\ last' = [op |-> "exp", env |-> 2, arg |-> Str(px.input), out |-> ex'.out, ret |-> Undef]
  /\ UNCHANGED <<envs, tabs, px>>

NextSyntax == SyntaxExp

SpecSyntax == InitSyntax /\ [][NextSyntax]_vars

(***************************************************************************)
(* Compilation with a signature: an expression over x, y and z is parsed   *)
(* by the base registry, compiled with an argument that is an array of     *)
(* names or something else, and the function is called with one value per  *)
(* name of the array.                                                      *)
(***************************************************************************)
CompileInputs ==
  {"x / y", "y * z - x", "x + y", "x - y * z", "-x + y", "x * x", "x", "1 + 2", "z - x < y"}

\* Arrays of at most three names, a name possibly more than once.
NameLists ==
  UNION { [1..n -> {VarNames[k] : k \in 1..Len(VarNames)}] : n \in 0..Len(VarNames) }

\* compile({}), compile("x"), compile(null), compile(undefined)
NotArrays == {[t |-> "object", n |-> 0, s |-> "{}", items |-> <<>>],
              Str("x") @@ [items |-> <<>>],
              Null @@ [items |-> <<>>],
              Undef @@ [items |-> <<>>]}

CompileValues == { [x |-> Num(8), y |-> Num(2), z |-> Num(1)],
                   [x |-> Num(3), y |-> Num(1), z |-> Num(6)] }

InitCompile ==
  /\ envs = BaseWorld.envs
  /\ tabs = BaseWorld.tabs
  /\ last = Loaded
  /\ nops = 0
  /\ px \in { [input |-> s, args |-> a, vals |-> v, fn |-> NotCompiled("none")] :
                s \in CompileInputs,
                a \in {ArrayOf(l) : l \in NameLists} \cup NotArrays,
                v \in CompileValues }
  /\ ex = NoExpression

CompileOf(fn) ==
  /\ px' = [px EXCEPT !.fn = fn]
  /\ nops' = nops + 1
  /\ last' = [op |-> "compile", env |-> 1, arg |-> px.args, out |-> fn.out, ret |-> Undef]
  /\ UNCHANGED <<envs, tabs, ex>>

\* fn = exp.compile(args)
Compile ==
  /\ ex.out = "ok"
  /\ last.op = "exp"
  /\ CompileOf(compile(W, ex.exp, px.args))

\* The values the function is called with: the value of names[i] at i.
Positional(names, vals) == [k \in 1..Len(names) |-> vals[names[k]]]

CallOf(r) ==
  /\ nops' = nops + 1
  /\ last' = [op |-> "call", env |-> 1, arg |-> px.args, out |-> r.out, ret |-> r.v]
  /\ UNCHANGED <<envs, tabs, px, ex>>

\* fn(vals[names[0]], vals[names[1]], ...)
CallCompiled ==
  /\ last.op = "compile"
  /\ last.out = "ok"
  /\ CallOf(CallFunction(W, px.fn, Positional(px.args.items, px.vals)))

NextCompile ==
  \/ EvalExp
  \/ Compile
  \/ CallCompiled

SpecCompile == InitCompile /\ [][NextCompile]_vars

(***************************************************************************)
(* The tokenizer on whole inputs: numbers with and without an exponent,    *)
(* dots before digits, and runs of punctuation between two identifiers, in *)
(* a clone of the base registry that has operators of two, three and four  *)
(* characters and a unary operator of two characters.                      *)
(***************************************************************************)
MaxRun == 4

TokenCalls == <<
  Call("addBinary", ODef("**", 2, 1, "Math.pow", Str("Math.pow(@1, @2)"))),
  Call("addBinary", ODef("|", 12, 0, "bitor", Str("@1 | @2"))),
  Call("addBinary", ODef(">>", 7, 0, "sar", Str("@1 >> @2"))),
  Call("addBinary", ODef(">>>", 7, 0, "shr", Str("@1 >>> @2"))),
  Call("addBinary", ODef(">>>=", 15, 0, "shrle", Undef)),
  Call("addUnary", ODef("++", 3, 1, "inc", Undef)) >>

TokenWorld == Chain(clone(BaseWorld, 1).w, 2, TokenCalls)

TokenCase(kind, prefix, input) == [kind |-> kind, prefix |-> prefix, input |-> input]

Mantissas == {"1", "12", "0.5", ".5", "1234"}
NumberTails ==
  {"", "e2", "E2", "e+2", "E-2", "e-12", "e", "E+", "e+x", "|2", "||2", "|+2", "|-2",
   "e|2", "+|2", "|", "| 2", " | 2", "|x", "e2e2", " e2", "+2", "-2", ".", "x", "|333"}
NumberInputs ==
  {TokenCase("number", p, p \o m \o t) : p \in {"", "x + "}, m \in Mantissas, t \in NumberTails}

DotPrefixes == {"", "1+", "x", "(", "1 + ", "1.", "1.5", "x ", ". ", "-", ".", "x+", "1 "}
DotTails == {".5", ".25", ".5e2", ".5+x", ".0", ". 5", ".\t5", ".x", ".", ".)", ".5.5"}
DotInputs == {TokenCase("dot", p, p \o t) : p \in DotPrefixes, t \in DotTails}

RunChars == {">", "=", "+", "*"}
Runs == UNION { [1..n -> RunChars] : n \in 1..MaxRun }
RECURSIVE Concat(_)
Concat(seq) == IF seq = <<>> THEN "" ELSE Head(seq) \o Concat(Tail(seq))
RunInputs == {TokenCase("run", "a", "a" \o Concat(r) \o "b") : r \in Runs}

InitTokens ==
  /\ envs = TokenWorld.envs
  /\ tabs = TokenWorld.tabs
  /\ last = Loaded
  /\ nops = 0
  /\ px \in NumberInputs \cup DotInputs \cup RunInputs
  /\ ex = NoExpression

\* new Parser(env, options).tokenize(input)
Tokenize ==
  /\ last.op = "load"
  /\ nops' = nops + 1
  /\ ex' = tokenize(W, 2, px.input)
  /\ last' = [op |-> "tokenize", env |-> 2, arg |-> Str(px.input), out |-> ex'.out, ret |-> Undef]
  /\ UNCHANGED <<envs, tabs, px>>

\* env.exp(input) of the same input
TokensExp ==
  /\ last.op = "tokenize"
  /\ nops' = nops + 1
  /\ ex' = exp(W, 2, px.input, RawOptions)
  /\ last' = [op |-> "exp", env |-> 2, arg |-> Str(px.input), out |-> ex'.out, ret |-> Undef]
  /\ UNCHANGED <<envs, tabs, px>>

NextTokens ==
  \/ Tokenize
  \/ TokensExp

SpecTokens == InitTokens /\ [][NextTokens]_vars

(***************************************************************************)
(* Chains of binary operators of one precedence: the registry is a clone   *)
(* of the base one with two right-associative operators at the precedence  *)
(* of the left-associative * and /.                                        *)
(***************************************************************************)
AssocCalls == <<
  Call("addBinary", ODef("**", 5, 1, "Math.pow", Str("Math.pow(@1, @2)"))),
  Call("addBinary", ODef("%%", 5, 1, "mod", Str("@1 % @2"))) >>

AssocWorld == Chain(clone(BaseWorld, 1).w, 2, AssocCalls)

AssocOps == {"*", "/", "**", "%%"}
AssocChains == UNION { [1..n -> AssocOps] : n \in 0..MaxChain }

InitAssoc ==
  /\ envs = AssocWorld.envs
  /\ tabs = AssocWorld.tabs
  /\ last = Loaded
  /\ nops = 0
  /\ px \in { [input |-> c, done |-> FALSE] : c \in AssocChains }
  /\ ex = NoExpression

NextAssoc == ParseChain

SpecAssoc == InitAssoc /\ [][NextAssoc]_vars

(***************************************************************************)
(* Unary operators before the left operand of a binary operator: the       *)
(* registry is a clone of the base one with the ** of the tests (binary,   *)
(* precedence 2) and a unary ~ of precedence 7.                            *)
(***************************************************************************)
MaxUnary == 2

UnaryCalls == <<
  Call("addBinary", PowDef),
  Call("addUnary", ODef("~", 7, 1, "bitnot", Str("~(@1)"))) >>

UnaryWorld == Chain(clone(BaseWorld, 1).w, 2, UnaryCalls)

UnaryOps == {"-", "!", "~"}
UnaryChains == UNION { [1..n -> UnaryOps] : n \in 1..MaxUnary }
\* The binary operator after the operand; "" for none.
FollowOps == {"", "**", "*", "+", "-", "<"}

\* u1 u2 ... 1 op 2
RenderUnary(chain, op) ==
  Concat(chain) \o "1" \o (IF op = "" THEN "" ELSE " " \o op \o " 2")

InitUnary ==
  /\ envs = UnaryWorld.envs
  /\ tabs = UnaryWorld.tabs
  /\ last = Loaded
  /\ nops = 0
  /\ px \in { [unary |-> c, op |-> o, done |-> FALSE] : c \in UnaryChains, o \in FollowOps }
  /\ ex = NoExpression

\* env.exp(input, { noFolding: true })
ParseUnary ==
  /\ ~px.done
  /\ px' = [px EXCEPT !.done = TRUE]
  /\ nops' = nops + 1
  /\ ex' = exp(W, 2, RenderUnary(px.unary, px.op), [NoOptions EXCEPT !.noFolding = TRUE])
  /\ last' = [op |-> "exp", env |-> 2, arg |-> Str(RenderUnary(px.unary, px.op)),
              out |-> ex'.out, ret |-> Undef]
  /\ UNCHANGED <<envs, tabs>>

NextUnary == ParseUnary

SpecUnary == InitUnary /\ [][NextUnary]_vars

(***************************************************************************)
(* Add, del, add again: on a clone of the base registry a definition is    *)
(* registered through one of the four builders, an expression that uses it *)
(* is parsed, del() is called with the name that was given to the builder, *)
(* and the same builder call is made once more.                            *)
(***************************************************************************)
RoundCase(b, def, input) == [c |-> Call(b, def), input |-> input, step |-> "start"]

RoundCases ==
  { RoundCase("addConstant", CDef("K", Num(2)), "K"),
    RoundCase("addConstant", CDef("E", Num(3)), "E"),
    RoundCase("addConstant", CDef("tau", Num(6)), "tau"),
    RoundCase("addConstant", CDef("_1", Num(1)), "_1"),
    RoundCase("addUnary", ODef("~", 3, 1, "bitnot", Str("~(@1)")), "~x"),
    RoundCase("addUnary", ODef("+", 3, 1, "plus", Str("+(@1)")), "+x"),
    RoundCase("addUnary", ODef("#", 3, 1, "double", Undef), "#x"),
    RoundCase("addUnary", ODef("^", 4, 0, "double", Undef), "^x"),
    RoundCase("addBinary", ODef("**", 2, 1, "Math.pow", Str("Math.pow(@1, @2)")), "x ** y"),
    RoundCase("addBinary", ODef("|", 12, 0, "bitor", Str("@1 | @2")), "x | y"),
    RoundCase("addBinary", ODef("^", 11, 0, "bitxor", Str("@1 ^ @2")), "x ^ y"),
    RoundCase("addBinary", ODef("<<", 7, 0, "shl", Undef), "x << y"),
    RoundCase("addFunction", F1("twice", "double"), "twice(x)"),
    RoundCase("addFunction", F1("sq", "square"), "sq(x)"),
    RoundCase("addFunction", F2("top", "Math.max"), "top(x, y)"),
    RoundCase("addFunction", FN("sum", "sum"), "sum(x, y)") }

\* Names for del() on a registry that may not have them.
RoundNames == {"K", "~", "**", "twice", "nosuch", "unary-", "-", "abs", "PI"}

RoundWorld == clone(BaseWorld, 1).w

InitRound ==
  /\ envs = RoundWorld.envs
  /\ tabs = RoundWorld.tabs
  /\ last = Loaded
  /\ nops = 0
  /\ px \in RoundCases
  /\ ex = NoExpression

RoundCommit(op, arg, r, step) ==
  /\ nops' = nops + 1
  /\ envs' = r.w.envs
  /\ tabs' = r.w.tabs
  /\ last' = Called(op, 2, arg, r)
  /\ px' = [px EXCEPT !.step = step]
  /\ UNCHANGED ex

\* env.addConstant(def) / env.addUnary(def) / env.addBinary(def) / env.addFunction(def)
RoundAdd ==
  /\ px.step = "start"
  /\ RoundCommit(px.c.b, px.c.def, Builder(W, 2, px.c), "added")

\* env.exp(input, { noFolding: true })
RoundExp ==
  /\ px.step \in {"added", "deleted"}
  /\ last.op # "exp"
  /\ nops' = nops + 1
  /\ ex' = exp(W, 2, px.input, [NoOptions EXCEPT !.noFolding = TRUE])
  /\ last' = [op |-> "exp", env |-> 2, arg |-> Str(px.input), out |-> ex'.out, ret |-> Undef]
  /\ UNCHANGED <<envs, tabs, px>>

\* env.del(name), with the name given to the builder
RoundDel ==
  /\ px.step = "added"
  /\ RoundCommit("del", px.c.def.name, del(W, 2, ToStr(px.c.def.name)), "deleted")

\* The same builder call once more.
RoundAgain ==
  /\ px.step = "deleted"
  /\ RoundCommit(px.c.b, px.c.def, Builder(W, 2, px.c), "again")

\* env.del(name) before anything was added
RoundDelFirst ==
  /\ px.step = "start"
  /\ \E name \in RoundNames : RoundCommit("del", Str(name), del(W, 2, name), "first")

NextRound ==
  \/ RoundAdd
  \/ RoundExp
  \/ RoundDel
  \/ RoundAgain
  \/ RoundDelFirst

SpecRound == InitRound /\ [][NextRound]_vars

(***************************************************************************)
(* Emit templates: a clone of the base registry gets a function, a binary  *)
(* operator and a unary operator without `emit` and a function with a      *)
(* template of its own; an expression that uses a definition on variables  *)
(* is parsed, and evaluated through the getter `eval`.                     *)
(***************************************************************************)
EmitCalls == <<
  Call("addFunction", FDef("twice", 1, Num(1), "double", Undef)),
  Call("addFunction", FDef("top", 2, Num(2), "Math.max", Str("Math.max(@1, @2)"))),
  Call("addBinary", ODef("**", 2, 1, "Math.pow", Undef)),
  Call("addUnary", ODef("~", 3, 1, "double", Undef)) >>

EmitWorld == Chain(clone(BaseWorld, 1).w, 2, EmitCalls)

\* Functions with a template of their own, applied to variables.
TemplateInputs ==
  {"isint(x)", "issafeint(x)", "isnan(x)", "isfinite(x)", "isnan(x + y)",
   "top(x, y)", "isnan(x) + y"}

\* Definitions whose template add*() derived from the name.
AutoInputs ==
  {"twice(x)", "twice(y) - z", "x ** y", "~x", "~x + y", "~(x * y)",
   "x ~= y", "x ~= x", "isinf(x)", "abs(x - y)", "pow(x, y)", "min(x, y, z)"}

InitEmit ==
  /\ envs = EmitWorld.envs
  /\ tabs = EmitWorld.tabs
  /\ last = Loaded
  /\ nops = 0
  /\ px \in { [kind |-> k, input |-> s, vals |-> v] :
                k \in {"template", "auto"},
                s \in TemplateInputs \cup AutoInputs,
                v \in Values }
  /\ px.input \in (IF px.kind = "template" THEN TemplateInputs ELSE AutoInputs)
  /\ ex = NoExpression

\* env.exp(input)
EmitExp ==
  /\ ex.out = "none"
  /\ nops' = nops + 1
  /\ ex' = exp(W, 2, px.input, NoOptions)
  /\ last' = [op |-> "exp", env |-> 2, arg |-> Str(px.input), out |-> ex'.out, ret |-> Undef]
  /\ UNCHANGED <<envs, tabs, px>>

EmitEvalOf(fn) ==
  /\ nops' = nops + 1
  /\ ex' = [ex EXCEPT !.exp.evalCache = IF fn.out = "ok" THEN fn ELSE @]
  /\ last' = [op |-> "eval", env |-> 2, arg |-> Undef, out |-> fn.out, ret |-> Undef]
  /\ UNCHANGED <<envs, tabs, px>>

\* exp.eval: the getter compiles the tree and keeps the function in $eval.
EmitEval ==
  /\ ex.out = "ok"
  /\ last.op = "exp"
  /\ EmitEvalOf(evalGetter(W, ex.exp))

EmitCallOf(r) ==
  /\ nops' = nops + 1
  /\ last' = [op |-> "call", env |-> 2, arg |-> px.vals, out |-> r.out, ret |-> r.v]
  /\ UNCHANGED <<envs, tabs, px, ex>>

\* exp.eval(vals): the function kept in $eval is called.
EmitCall ==
  /\ ex.out = "ok"
  /\ ex.exp.evalCache # Null
  /\ last.op \in {"eval", "compile"}
  /\ EmitCallOf(CallFunction(W, ex.exp.evalCache, <<px.vals>>))

\* exp.compile(["x", "y", "z"])
EmitCompile ==
  /\ ex.out = "ok"
  /\ last.op = "eval"
  /\ nops' = nops + 1
  /\ ex' = ex
  /\ last' = [op |-> "compile", env |-> 2, arg |-> ArrayOf(VarNames),
              out |-> compile(W, ex.exp, ArrayOf(VarNames)).out, ret |-> Undef]
  /\ UNCHANGED <<envs, tabs, px>>

NextEmit ==
  \/ EmitExp
  \/ EmitEval
  \/ EmitCall
  \/ EmitCompile

SpecEmit == InitEmit /\ [][NextEmit]_vars

(***************************************************************************)
(* Properties of the compiler.                                             *)
(***************************************************************************)
\* C1: the function of the getter `eval` and the function compile(names)
\* returns give, for every tree and every binding of its variables, the
\* number the tree evaluates to through the `eval` callbacks of its nodes
\* (the root after fold(cmap) with all variables substituted).
C1_CompiledAgreesWithTree ==
  last.op \in {"eval", "compile"} =>
    /\ last.out = "ok"
    /\ last.ret = fold(ex.exp, px.vals).root

(***************************************************************************)
(* Properties of the parser.                                               *)
(***************************************************************************)
PrecOf(op) == get(W, 2, op).prec.n
RtlOf(op) == get(W, 2, op).rtl = JsBool(TRUE)

\* Precedence climbing over the chain `ops`: the tree of the operands from
\* the k-th on, taking operators whose precedence number is at most maxPrec.
RECURSIVE Climb(_, _, _)
RECURSIVE ClimbLoop(_, _, _, _)
ClimbLoop(ops, lhs, j, maxPrec) ==
  IF j > Len(ops) \/ PrecOf(ops[j]) > maxPrec THEN [tree |-> lhs, next |-> j]
  ELSE LET r == Climb(ops, j + 1, IF RtlOf(ops[j]) THEN PrecOf(ops[j]) ELSE PrecOf(ops[j]) - 1)
       IN ClimbLoop(ops, newBinary(ops[j], get(W, 2, ops[j]), lhs, r.tree), r.next, maxPrec)

Climb(ops, k, maxPrec) == ClimbLoop(ops, Num(k), k, maxPrec)

\* The largest precedence number of the operators of the chains.
LoosestPrec ==
  CHOOSE p \in {PrecOf(o) : o \in ChainOps} : \A o \in ChainOps : PrecOf(o) <= p

\* The operands and operators of a tree, left to right.
RECURSIVE InOrder(_)
InOrder(t) ==
  IF ~IsNode(t) THEN <<ToStr(t)>>
  ELSE InOrder(t.left) \o <<t.name>> \o InOrder(t.right)

RECURSIVE Interleave(_, _)
Interleave(ops, k) ==
  IF k > Len(ops) THEN <<ToString(k)>>
  ELSE <<ToString(k), ops[k]>> \o Interleave(ops, k + 1)

RECURSIVE OpCount(_)
OpCount(t) == IF ~IsNode(t) THEN 0 ELSE OpCount(t.left) + 1 + OpCount(t.right)

\* In tree t, the a-th operator (in input order) is a proper ancestor of the d-th.
RECURSIVE IsAnc(_, _, _)
IsAnc(t, a, d) ==
  IF ~IsNode(t) THEN FALSE
  ELSE LET c == OpCount(t.left) + 1
       IN IF a = c THEN d # c /\ d >= 1 /\ d <= OpCount(t)
          ELSE IF a < c /\ d < c THEN IsAnc(t.left, a, d)
          ELSE IF a > c /\ d > c THEN IsAnc(t.right, a - c, d - c)
          ELSE FALSE

\* C2: for every chain operand (op operand)*, parseExpression returns the tree
\* of precedence climbing: of two adjacent operators the one with the lower
\* precedence number is below the other, equal precedence groups to the left
\* when left-associative and to the right when right-associative, and the
\* tree read in order is the input.
C2_PrecedenceClimbing ==
  px.done =>
    /\ ex.out = "ok"
    /\ ex.exp.root = Climb(px.input, 1, LoosestPrec).tree
    /\ InOrder(ex.exp.root) = Interleave(px.input, 1)
    /\ \A j \in 1..(Len(px.input) - 1) :
         LET a == px.input[j]
             b == px.input[j + 1]
         IN /\ PrecOf(a) > PrecOf(b) => IsAnc(ex.exp.root, j, j + 1)
            /\ PrecOf(a) < PrecOf(b) => IsAnc(ex.exp.root, j + 1, j)
            /\ (PrecOf(a) = PrecOf(b) /\ ~RtlOf(a) /\ ~RtlOf(b)) => IsAnc(ex.exp.root, j + 1, j)
            /\ (PrecOf(a) = PrecOf(b) /\ RtlOf(a) /\ RtlOf(b)) => IsAnc(ex.exp.root, j, j + 1)

\* 1 - 2 ** 3 ** 4 * 5 was parsed to 1 - ((2 ** (3 ** 4)) * 5).
C2_Witness ==
  /\ px.done
  /\ px.input = <<"-", "**", "**", "*">>
  /\ ex.out = "ok"
  /\ ex.exp.root.name = "-"
  /\ ex.exp.root.right.name = "*"
  /\ ex.exp.root.right.left.name = "**"
  /\ ex.exp.root.right.left.left = Num(2)
  /\ ex.exp.root.right.left.right.name = "**"

(***************************************************************************)
(* Properties of the registry and of folding.                              *)
(***************************************************************************)
Mutators == {"add", "addConstant", "addUnary", "addBinary", "addFunction", "del"}
Builders == {"addUnary", "addBinary", "addFunction"}

\* The step is a call (not a stuttering step).
IsCall == nops' # nops

\* C3: the base registry is frozen: every add, every builder and every del on
\* it fails with an ExpressionError, and its two tables never change.
C3_BaseRegistryFrozen ==
  /\ (last.env = 1 /\ last.op \in Mutators) => last.out = "ExpressionError"
  /\ Lang(W, 1).props = BaseWorld.tabs[1].props
  /\ Func(W, 1).props = BaseWorld.tabs[2].props

\* The world with every freeze undone.
Thawed(w) ==
  World([k \in 1..Len(w.envs) |-> [w.envs[k] EXCEPT !.frozen = FALSE, !.sealed = FALSE]],
        [k \in 1..Len(w.tabs) |-> [w.tabs[k] EXCEPT !.sealed = FALSE]])

\* C4: on a frozen registry every add, builder and del fails with an
\* ExpressionError and leaves both tables as they were; get, exp and clone
\* work as on a registry that is not frozen; the clone is not frozen.
C4_FrozenRegistry ==
  [][\A i \in 1..Len(envs) :
       (IsCall /\ envs[i].frozen /\ last'.env = i) =>
         /\ last'.op \in Mutators =>
              (last'.out = "ExpressionError" /\ tabs' = tabs /\ envs' = envs)
         /\ last'.op = "get" =>
              (last'.out = "ok" /\ last'.ret = get(Thawed(W), i, last'.arg.s))
         /\ last'.op = "exp" => ex' = exp(Thawed(W), i, last'.arg.s, NoOptions)
         /\ last'.op = "clone" =>
              /\ last'.out = "ok"
              /\ last'.ret = Num(Len(envs'))
              /\ ~envs'[Len(envs')].frozen
              /\ ~envs'[Len(envs')].sealed
              /\ Lang(W', Len(envs')) = [Lang(W, i) EXCEPT !.sealed = FALSE]
              /\ Func(W', Len(envs')) = [Func(W, i) EXCEPT !.sealed = FALSE]]_vars

\* A builder was refused on a frozen registry that has a clone.
C4_Witness ==
  /\ last.op \in Builders
  /\ last.out = "ExpressionError"
  /\ envs[last.env].frozen
  /\ Len(envs) > 1

\* C5: freeze() on a registry that is already frozen completes without
\* error, returns the registry and leaves it frozen with the same definitions.
C5_FreezeIdempotent ==
  [][(IsCall /\ last'.op = "freeze" /\ envs[last'.env].frozen) =>
       /\ last'.out = "ok"
       /\ last'.ret = Num(last'.env)
       /\ envs'[last'.env].frozen
       /\ tabs' = tabs]_vars

\* C6: a call on one registry leaves every other registry (the one it was
\* cloned from, its clones, the other clones of its origin) as it was: both
\* tables and every get(name).
C6_CloneIndependence ==
  [][\A j \in 1..Len(envs) :
       (IsCall /\ last'.env # j) =>
         /\ envs'[j] = envs[j]
         /\ Lang(W', j) = Lang(W, j)
         /\ Func(W', j) = Func(W, j)
         /\ \A n \in Names : get(W', j, n) = get(W, j, n)]_vars

\* Two clones exist, one was just extended with K, which the other clone and
\* the base registry do not have.
C6_Witness ==
  /\ Len(envs) = 3
  /\ last.op = "addConstant"
  /\ last.out = "ok"
  /\ last.env = 2
  /\ get(W, 2, "K") # Null
  /\ get(W, 3, "K") = Null
  /\ get(W, 1, "K") = Null

\* What add() must refuse, said by the field requirements of each type.
InvalidDef(w, i, d) ==
  \/ typeof(d.name) # "string"
  \/ Has(Lang(w, i), d.name.s)
  \/ d.type \notin {Str("Constant"), Str("Operator"), Str("Function")}
  \/ \E f \in Required(d.type) : typeof(d[f]) # FieldType(f)

\* C7: add(def) fails with an ExpressionError when the name is not a string
\* or is already defined, when the type is unknown, or when a field the type
\* requires is missing or mistyped; a failing add changes neither table.
C7_AddValidation ==
  [][(IsCall /\ last'.op = "add") =>
       /\ InvalidDef(W, last'.env, last'.arg) => last'.out = "ExpressionError"
       /\ last'.out # "ok" => (tabs' = tabs /\ envs' = envs)
       /\ last'.out = "ok" =>
            /\ ~Has(Lang(W, last'.env), last'.arg.name.s)
            /\ get(W', last'.env, last'.arg.name.s) = last'.arg]_vars

\* An Operator without a boolean rtl was refused by a registry that is not frozen.
C7_Witness ==
  /\ last.op = "add"
  /\ last.out = "ExpressionError"
  /\ ~envs[last.env].frozen
  /\ last.arg.type = Str("Operator")
  /\ typeof(last.arg.prec) = "number"
  /\ typeof(last.arg.rtl) # "boolean"

\* The name a builder stores its definition under.
StoredName(op, d) == IF op = "addUnary" THEN "unary" \o ToStr(d.name) ELSE ToStr(d.name)

AllValues(args) == \A k \in 1..Len(args) : isValue(args[k])

\* The tree holds a node of a safe definition whose operands are all literals.
RECURSIVE HasFoldable(_)
HasFoldable(node) ==
  IF ~IsNode(node) THEN FALSE
  ELSE CASE node.type = "Var" -> FALSE
         [] node.type = "Unary" ->
              \/ Truthy(node.info.safe) /\ isValue(node.value)
              \/ HasFoldable(node.value)
         [] node.type = "Binary" ->
              \/ Truthy(node.info.safe) /\ isValue(node.left) /\ isValue(node.right)
              \/ HasFoldable(node.left)
              \/ HasFoldable(node.right)
         [] node.type = "Call" ->
              \/ Truthy(node.info.safe) /\ AllValues(node.args)
              \/ \E k \in 1..Len(node.args) : HasFoldable(node.args[k])

C9_PrecRequired ==
  (last.op \in {"addUnary", "addBinary"} /\ last.arg.prec = Undef) =>
    (last.out = "ExpressionError" /\ get(W, last.env, StoredName(last.op, last.arg)) = Null)

NoFolding == [NoOptions EXCEPT !.noFolding = TRUE]

\* `res` is `raw` after a fold with `cmap`, where no node was replaced by a
\* value unless its definition is safe.
RECURSIVE UnsafeKept(_, _, _)
UnsafeKept(raw, res, cmap) ==
  IF ~IsNode(raw) THEN res = raw
  ELSE CASE raw.type = "Var" ->
              res = IF raw.name \in DOMAIN cmap THEN cmap[raw.name] ELSE raw
         [] raw.type = "Unary" ->
              IF ~IsNode(res) THEN Truthy(raw.info.safe)
              ELSE /\ res.type = "Unary" /\ res.name = raw.name /\ res.info = raw.info
                   /\ UnsafeKept(raw.value, res.value, cmap)
         [] raw.type = "Binary" ->
              IF ~IsNode(res) THEN Truthy(raw.info.safe)
              ELSE /\ res.type = "Binary" /\ res.name = raw.name /\ res.info = raw.info
                   /\ UnsafeKept(raw.left, res.left, cmap)
                   /\ UnsafeKept(raw.right, res.right, cmap)
         [] raw.type = "Call" ->
              IF ~IsNode(res) THEN Truthy(raw.info.safe)
              ELSE /\ res.type = "Call" /\ res.name = raw.name /\ res.info = raw.info
                   /\ Len(res.args) = Len(raw.args)
                   /\ \A k \in 1..Len(raw.args) : UnsafeKept(raw.args[k], res.args[k], cmap)

\* C10: in the fold of exp() and in every fold(cmap), no callback of a
\* definition with safe = false is invoked; a node of such a definition stays
\* a node of its type, with its children folded.
C10_UnsafeNeverFolded ==
  [][(IsCall /\ last'.op \in {"exp", "fold"} /\ ex'.out = "ok") =>
       /\ \A k \in 1..Len(ex'.exp.calls) : Truthy(ex'.exp.calls[k].safe)
       /\ ~HasFoldable(ex'.exp.root)
       /\ IF last'.op = "exp"
          THEN UnsafeKept(exp(W, last'.env, last'.arg.s, NoFolding).exp.root,
                          ex'.exp.root, NoMap)
          ELSE UnsafeKept(ex.exp.root, ex'.exp.root, last'.arg)]_vars

\* fold({x: 1}) has turned g(x) + 1 into g(1) + 1, g being unsafe.
C10_Witness ==
  /\ last.op = "fold"
  /\ ex.out = "ok"
  /\ IsNode(ex.exp.root)
  /\ ex.exp.root.type = "Binary"
  /\ IsNode(ex.exp.root.left)
  /\ ex.exp.root.left.type = "Call"
  /\ ex.exp.root.left.info.safe = JsBool(FALSE)
  /\ ex.exp.root.left.args = <<Num(1)>>
  /\ ex.exp.root.right = Num(1)


(***************************************************************************)
(* Properties of folding.                                                  *)
(***************************************************************************)
\* The variables of a tree that `cmap` does not bind.
RECURSIVE FreeVars(_, _)
FreeVars(n, cmap) ==
  IF ~IsNode(n) THEN {}
  ELSE CASE n.type = "Var" -> {n.name} \ DOMAIN cmap
         [] n.type = "Unary" -> FreeVars(n.value, cmap)
         [] n.type = "Binary" -> FreeVars(n.left, cmap) \cup FreeVars(n.right, cmap)
         [] n.type = "Call" -> UNION {FreeVars(n.args[k], cmap) : k \in 1..Len(n.args)}

RECURSIVE AllSafe(_)
AllSafe(n) ==
  IF ~IsNode(n) \/ n.type = "Var" THEN TRUE
  ELSE /\ n.info.safe = JsBool(TRUE)
       /\ CASE n.type = "Unary" -> AllSafe(n.value)
            [] n.type = "Binary" -> AllSafe(n.left) /\ AllSafe(n.right)
            [] n.type = "Call" -> \A k \in 1..Len(n.args) : AllSafe(n.args[k])

\* The recursive evaluation of a tree under `cmap`, by the `eval` callbacks.
RECURSIVE ValueOf(_, _)
ValueOf(n, cmap) ==
  IF ~IsNode(n) THEN n
  ELSE CASE n.type = "Var" -> cmap[n.name]
         [] n.type = "Unary" -> Apply(n.info.eval, <<ValueOf(n.value, cmap)>>)
         [] n.type = "Binary" ->
              Apply(n.info.eval, <<ValueOf(n.left, cmap), ValueOf(n.right, cmap)>>)
         [] n.type = "Call" ->
              Apply(n.info.eval, [k \in 1..Len(n.args) |-> ValueOf(n.args[k], cmap)])

\* What fold(cmap) must make (r) of the tree n.
RECURSIVE FoldPost(_, _, _)
FoldPost(n, r, cmap) ==
  IF ~IsNode(n) THEN r = n
  ELSE IF n.type = "Var" THEN r = (IF n.name \in DOMAIN cmap THEN cmap[n.name] ELSE n)
  ELSE IF FreeVars(n, cmap) # {} THEN
    /\ IsNode(r)
    /\ r.type = n.type
    /\ r.name = n.name
    /\ CASE n.type = "Unary" -> FoldPost(n.value, r.value, cmap)
         [] n.type = "Binary" -> FoldPost(n.left, r.left, cmap) /\ FoldPost(n.right, r.right, cmap)
         [] n.type = "Call" ->
              /\ Len(r.args) = Len(n.args)
              /\ \A k \in 1..Len(n.args) : FoldPost(n.args[k], r.args[k], cmap)
  ELSE AllSafe(n) => r = ValueOf(n, cmap)

\* C11: fold(cmap) replaces every variable cmap binds by its value; a tree
\* whose variables are all bound and whose definitions are all safe becomes
\* the number it evaluates to; a variable cmap does not bind stays a Var
\* node and every node above it stays a node of its type.
C11_FoldSubstitutes ==
  [][last'.op = "fold" =>
       /\ last'.out = "ok"
       /\ FoldPost(ex.exp.root, ex'.exp.root, last'.arg)]_vars

\* `x + y` was folded with {x: 1, y: 2} to 3.
C11_Witness ==
  /\ last.op = "fold"
  /\ px.input = "x + y"
  /\ px.noFolding
  /\ px.folds = 1
  /\ last.arg = [x |-> Num(1), y |-> Num(2)]
  /\ ex.exp.root = Num(3)

\* C12: a fold(m) directly after fold(m), or a fold() after any fold, ends
\* without error, leaves the root as it was, leaves `dirty` unset and keeps
\* the caches.
C12_FoldIdempotent ==
  [][(last'.op = "fold" /\ px.prev.has /\ last'.arg \in {px.prev.map, NoMap}) =>
       /\ last'.out = "ok"
       /\ ex'.exp.root = ex.exp.root
       /\ ex'.exp.dirty = FALSE
       /\ ex'.exp.evalCache = ex.exp.evalCache
       /\ ex'.exp.varsCache = ex.exp.varsCache]_vars

\* fold(m), then the getter `eval`, then fold(m) again with the function kept.
C12_Witness ==
  /\ last.op = "fold"
  /\ px.folds = 2
  /\ px.prev.map = [x |-> Num(1)]
  /\ ex.exp.evalCache # Null
  /\ IsNode(ex.exp.root)

\* C13: after c = e.clone(), a fold of c leaves the tree of e and each of its
\* nodes as they were, a fold of e leaves the tree and the nodes of c as they
\* were, and no Unary, Binary or Call node belongs to both trees.
C13_CloneIndependence ==
  [][(ex'.out = "ok" /\ ex'.c # Null) =>
       /\ CellsOf(ex'.heap, ex'.e.root) \cap CellsOf(ex'.heap, ex'.c.root) = {}
       /\ (last'.op = "fold" /\ last'.arg.on = "c") =>
            (/\ ex'.e = ex.e
             /\ TreeOf(ex'.heap, ex'.e.root) = TreeOf(ex.heap, ex.e.root)
             /\ \A a \in CellsOf(ex.heap, ex.e.root) : ex'.heap[a] = ex.heap[a])
       /\ (last'.op = "fold" /\ last'.arg.on = "e") =>
            (/\ ex'.c = ex.c
             /\ TreeOf(ex'.heap, ex'.c.root) = TreeOf(ex.heap, ex.c.root)
             /\ \A a \in CellsOf(ex.heap, ex.c.root) : ex'.heap[a] = ex.heap[a])]_vars

\* The clone was folded to a number while the original is still a tree.
C13_Witness ==
  /\ ex.out = "ok"
  /\ ex.c # Null
  /\ last.op = "fold"
  /\ last.arg.on = "c"
  /\ IsLiteral(ex.c.root)
  /\ IsRef(ex.e.root)
  /\ FreeVars(TreeOf(ex.heap, ex.e.root), NoMap) # {}

(***************************************************************************)
(* Properties of the parser on whole inputs.                               *)
(***************************************************************************)
\* The tokens of the input, as the tokenizer yields them.
Toks == tokenize(W, 2, px.input).tokens

\* The k-th token is an identifier directly followed by "(".
IsCallAt(toks, k) ==
  toks[k].type = kTokenIdent /\ k < Len(toks) /\ toks[k + 1].data = "("

\* The registered type of a name ("" when the name is not registered).
TypeOf(name) == IF get(W, 2, name) = Null THEN "" ELSE get(W, 2, name).type.s

\* The k-th token is an identifier used as a variable.
IsVariableAt(toks, k) ==
  /\ toks[k].type = kTokenIdent
  /\ ~IsCallAt(toks, k)
  /\ TypeOf(toks[k].data) \notin {"Constant", "Function"}

First(S) == CHOOSE k \in S : \A j \in S : k <= j

\* C14: with a whitelist, an input that is a valid expression parses if and
\* only if every identifier used as a variable is a key of the whitelist, and
\* then its variables are among the keys; otherwise exp() fails with an
\* ExpressionError that names the first such variable and carries the offset
\* of its token.  The name of a Constant is not looked up in the whitelist.
C14_Whitelist ==
  (last.op = "exp" /\ px.kind = "whitelist" /\ exp(W, 2, px.input, NoOptions).out = "ok") =>
    LET bad == { k \in 1..Len(Toks) :
                   IsVariableAt(Toks, k) /\ Toks[k].data \notin px.options.varsWhitelist }
    IN IF bad = {} THEN
         /\ ex.out = "ok"
         /\ FreeVars(ex.exp.root, NoMap) \subseteq px.options.varsWhitelist
       ELSE
         /\ ex.out = "ExpressionError"
         /\ ex.exp = Null
         /\ ex.msg = "Variable " \o Toks[First(bad)].data \o " is not on the whitelist"
         /\ ex.position = Toks[First(bad)].position

\* `sin(z)` under the whitelist {x} failed at offset 4.
C14_Witness ==
  /\ last.op = "exp"
  /\ px.input = "sin(z)"
  /\ px.options.varsWhitelist = {"x"}
  /\ ex.out = "ExpressionError"
  /\ ex.position = 4

\* C16: `x ? a() : b()` parses, and the function of the getter `eval`
\* returns the result of a for x = 1 and the result of b for x = 0.
C16_TernaryLazy ==
  (last.op = "exp" /\ px.input = "x ? a() : b()") =>
    /\ ex.out = "ok"
    /\ CallFunction(W, evalGetter(W, ex.exp), <<[x |-> Num(1)]>>).v = Apply(Fn("taken"), <<>>)
    /\ CallFunction(W, evalGetter(W, ex.exp), <<[x |-> Num(0)]>>).v = Apply(Fn("notTaken"), <<>>)

\* C17: a conditional whose condition is a literal is folded to the value of
\* the branch the condition selects: `1 ? 2 : 4` to 2, `0 ? 2 : 4` and
\* `NaN ? 2 : 4` to 4.
C17_ConditionalFolds ==
  (last.op = "exp" /\ px.input \in {"1 ? 2 : 4", "0 ? 2 : 4", "NaN ? 2 : 4"}) =>
    /\ ex.out = "ok"
    /\ ex.exp.root = IF px.input = "1 ? 2 : 4" THEN Num(2) ELSE Num(4)

\* C18: exp() fails with an ExpressionError and returns no Expression for an
\* input without tokens, with a token after the complete expression, with a
\* missing operand, or with a group or argument list left open; the registry
\* stays as it was.  (The well-formed inputs these are made of do parse.)
C18_InvalidInputFails ==
  /\ (last.op = "exp" /\ px.kind \in {"empty", "trailing", "missing", "unclosed"}) =>
       /\ ex.out = "ExpressionError"
       /\ ex.exp = Null
       /\ envs = SyntaxWorld.envs
       /\ tabs = SyntaxWorld.tabs
  /\ (last.op = "exp" /\ px.kind = "wellformed") => ex.out = "ok"

\* `sin(x)` with ")" after it was rejected at that token.
C18_Witness ==
  /\ last.op = "exp"
  /\ px.kind = "trailing"
  /\ px.input = "sin(x))"
  /\ ex.out = "ExpressionError"
  /\ ex.position = 6

\* The numbers and variables of a tree, left to right.
RECURSIVE LeavesOf(_)
LeavesOf(n) ==
  IF ~IsNode(n) THEN <<n>>
  ELSE CASE n.type = "Var" -> <<Str(n.name)>>
         [] n.type = "Unary" -> LeavesOf(n.value)
         [] n.type = "Binary" -> LeavesOf(n.left) \o LeavesOf(n.right)
         [] n.type = "Call" ->
              IF n.args = <<>> THEN <<>>
              ELSE LeavesOf(Head(n.args)) \o LeavesOf([n EXCEPT !.args = Tail(@)])

\* The numbers and variables the tokens from the k-th on stand for.
RECURSIVE LeavesAt(_, _)
LeavesAt(toks, k) ==
  IF k > Len(toks) THEN <<>>
  ELSE (CASE toks[k].type = kTokenValue -> <<toks[k].value>>
          [] toks[k].type = kTokenIdent /\ ~IsCallAt(toks, k) ->
               IF TypeOf(toks[k].data) = "Constant" THEN <<get(W, 2, toks[k].data).value>>
               ELSE <<Str(toks[k].data)>>
          [] OTHER -> <<>>) \o LeavesAt(toks, k + 1)

\* The names of the Call nodes of a tree, left to right.
RECURSIVE CallsOf(_)
CallsOf(n) ==
  IF ~IsNode(n) \/ n.type = "Var" THEN <<>>
  ELSE CASE n.type = "Unary" -> CallsOf(n.value)
         [] n.type = "Binary" -> CallsOf(n.left) \o CallsOf(n.right)
         [] n.type = "Call" ->
              IF n.args = <<>> THEN <<n.name>>
              ELSE <<n.name>> \o CallsOf(Head(n.args)) \o
                   Tail(CallsOf([n EXCEPT !.args = Tail(@)]))

RECURSIVE CallsAt(_, _)
CallsAt(toks, k) ==
  IF k > Len(toks) THEN <<>>
  ELSE (IF IsCallAt(toks, k) THEN <<toks[k].data>> ELSE <<>>) \o CallsAt(toks, k + 1)

\* The Var nodes of a tree.
RECURSIVE VarNodes(_)
VarNodes(n) ==
  IF ~IsNode(n) THEN {}
  ELSE CASE n.type = "Var" -> {n}
         [] n.type = "Unary" -> VarNodes(n.value)
         [] n.type = "Binary" -> VarNodes(n.left) \cup VarNodes(n.right)
         [] n.type = "Call" -> UNION { VarNodes(n.args[k]) : k \in 1..Len(n.args) }

\* C19: an identifier followed by "(" must name a Function, and one not
\* followed by "(" must not, or exp() fails; otherwise the identifiers
\* followed by "(" are the Call nodes of the tree, an identifier that names a
\* Constant is its value, any other one is a Var node, and two occurrences
\* of one name are one Var node.
C19_IdentResolution ==
  (last.op = "exp" /\ px.kind = "ident") =>
    LET bad == { k \in 1..Len(Toks) :
                   /\ Toks[k].type = kTokenIdent
                   /\ IsCallAt(Toks, k) # (TypeOf(Toks[k].data) = "Function") }
    IN IF bad # {} THEN ex.out = "ExpressionError" /\ ex.exp = Null
       ELSE /\ ex.out = "ok"
            /\ LeavesOf(ex.exp.root) = LeavesAt(Toks, 1)
            /\ CallsOf(ex.exp.root) = CallsAt(Toks, 1)
            /\ \A u, v \in VarNodes(ex.exp.root) : (u.name = v.name) <=> (u.id = v.id)

\* `x * y + x`: two Var nodes for three occurrences.
C19_Witness ==
  /\ last.op = "exp"
  /\ px.kind = "ident"
  /\ px.input = "x * y + x"
  /\ ex.out = "ok"
  /\ Cardinality(VarNodes(ex.exp.root)) = 2
  /\ LeavesOf(ex.exp.root) = <<Str("x"), Str("y"), Str("x")>>

\* A tree without the identities of its Var nodes.
RECURSIVE NoIds(_)
NoIds(n) ==
  IF ~IsNode(n) THEN n
  ELSE CASE n.type = "Var" -> [n EXCEPT !.id = 0]
         [] n.type = "Unary" -> [n EXCEPT !.value = NoIds(@)]
         [] n.type = "Binary" -> [n EXCEPT !.left = NoIds(@), !.right = NoIds(@)]
         [] n.type = "Call" -> [n EXCEPT !.args = [k \in 1..Len(@) |-> NoIds(@[k])]]

Count(v) == IF v.s = "" THEN ToString(v.n) ELSE v.s

\* C20: f(a1, ..., an) parses to a Call node of f with the n arguments in
\* source order if and only if args <= n <= amax; otherwise exp() fails with
\* an ExpressionError saying `accepts N argument(s)` when args = amax and
\* `accepts N to M argument(s)` when they differ.
C20_CallArity ==
  (last.op = "exp" /\ px.kind = "call") =>
    LET info == get(W, 2, px.f)
        n == Len(px.args)
    IN IF info.args.n <= n /\ (info.amax.s = "Infinity" \/ n <= info.amax.n) THEN
         /\ ex.out = "ok"
         /\ ex.exp.root.type = "Call"
         /\ ex.exp.root.name = px.f
         /\ Len(ex.exp.root.args) = n
         /\ \A k \in 1..n :
              NoIds(ex.exp.root.args[k]) = NoIds(exp(W, 2, px.args[k], RawOptions).exp.root)
       ELSE
         /\ ex.out = "ExpressionError"
         /\ ex.exp = Null
         /\ ex.msg = "Function '" \o px.f \o "' accepts " \o Count(info.args) \o
                     (IF info.args = info.amax THEN "" ELSE " to " \o Count(info.amax)) \o
                     " argument(s), " \o ToString(n) \o " provided"

\* The variadic sum took four arguments, and mid refused one.
C20_Witness ==
  /\ last.op = "exp"
  /\ px.kind = "call"
  /\ px.f = "sum"
  /\ Len(px.args) = 4
  /\ ex.out = "ok"
  /\ Len(ex.exp.root.args) = 4

(***************************************************************************)
(* Properties of compile(names).                                           *)
(***************************************************************************)
NamesOf(args) == {args.items[k] : k \in 1..Len(args.items)}

Unmapped(root, args) == FreeVars(root, <<>>) \ NamesOf(args)

Documented1 ==
  {"isnan", "isinf", "isfinite", "isint", "issafeint", "sign", "round", "trunc", "floor",
   "ceil", "abs", "exp", "expm1", "log", "log2", "log10", "sqrt", "cbrt", "frac",
   "sin", "cos", "tan", "sinh", "cosh", "tanh", "asin", "acos", "atan", "asinh", "acosh",
   "atanh"}

Documented(type, key, args, amax, prec) ==
  [type |-> type, key |-> key, args |-> args, amax |-> amax, prec |-> prec]

\* The built-in features of the README: name, arity and precedence.
BuiltIns ==
  {Documented("Constant", k, 0, Num(0), 0) : k \in {"Infinity", "NaN", "PI"}}
    \cup {Documented("Operator", "unary" \o k, 1, Num(1), 3) : k \in {"-", "!"}}
    \cup {Documented("Operator", k, 2, Num(2), 5) : k \in {"*", "/", "%"}}
    \cup {Documented("Operator", k, 2, Num(2), 6) : k \in {"+", "-"}}
    \cup {Documented("Operator", k, 2, Num(2), 8) : k \in {"<", "<=", ">", ">="}}
    \cup {Documented("Operator", k, 2, Num(2), 9) : k \in {"==", "!=", "~="}}
    \cup {Documented("Operator", "&&", 2, Num(2), 13), Documented("Operator", "||", 2, Num(2), 14)}
    \cup {Documented("Function", k, 1, Num(1), 0) : k \in Documented1}
    \cup {Documented("Function", k, 2, Num(2), 0) : k \in {"pow", "atan2", "hypot", "isequal"}}
    \cup {Documented("Function", k, 3, Num(3), 0) : k \in {"isbetween", "clamp"}}
    \cup {Documented("Function", k, 2, NamedNum("Infinity"), 0) :
            k \in {"min", "max", "minval", "maxval"}}

\* env.get(d.key) is a definition of the documented type, arity and precedence.
Defines(info, d) ==
  /\ info # Null
  /\ info.type = Str(d.type)
  /\ d.type # "Constant" => (info.args = Num(d.args) /\ info.amax = d.amax)
  /\ d.type = "Operator" => info.prec = Num(d.prec)

\* C21: the registry the module exports defines every documented constant,
\* operator and function with the documented arity and precedence.
C21_BuiltInSurface ==
  last.op = "load" => \A d \in BuiltIns : Defines(get(W, 1, d.key), d)

(***************************************************************************)
(* Properties of the tokenizer.                                            *)
(***************************************************************************)
AllDigits(s) == Len(s) >= 1 /\ \A k \in 1..Len(s) : SubSeq(s, k, k) \in Digits

\* digits, or optional digits, a dot and digits
IsMantissa(s) ==
  \/ AllDigits(s)
  \/ \E d \in 1..Len(s) :
       /\ SubSeq(s, d, d) = "."
       /\ d = 1 \/ AllDigits(SubSeq(s, 1, d - 1))
       /\ AllDigits(SubSeq(s, d + 1, Len(s)))

\* e or E, an optional sign, digits
IsExponent(s) ==
  /\ Len(s) >= 2
  /\ SubSeq(s, 1, 1) \in {"e", "E"}
  /\ \/ AllDigits(SubSeq(s, 2, Len(s)))
     \/ SubSeq(s, 2, 2) \in {"+", "-"} /\ AllDigits(SubSeq(s, 3, Len(s)))

IsNumberText(s) ==
  \E m \in 1..Len(s) :
    /\ IsMantissa(SubSeq(s, 1, m))
    /\ m = Len(s) \/ IsExponent(SubSeq(s, m + 1, Len(s)))

TokenTypes(tokens) == [k \in 1..Len(tokens) |-> tokens[k].type]

\* C22: every numeric token is a mantissa with an optional exponent of e or
\* E, an optional sign and digits; a punctuation character after the digits
\* ends the literal, so that 1|2 is a value, a punctuation token and a value.
C22_NumericTokenForm ==
  (last.op = "tokenize" /\ ex.out = "ok") =>
    /\ \A k \in 1..Len(ex.tokens) :
         ex.tokens[k].type = kTokenValue => IsNumberText(ex.tokens[k].data)
    /\ px.input = "1|2" => TokenTypes(ex.tokens) = <<kTokenValue, kTokenPunct, kTokenValue>>


\* `name` is an operator of the registry, unary or binary.
IsOperatorName(w, i, name) ==
  \/ get(w, i, name) # Null /\ get(w, i, name).type = Str("Operator")
  \/ get(w, i, "unary" \o name) # Null /\ get(w, i, "unary" \o name).type = Str("Operator")

\* The length of the longest prefix of at most kMaxOperatorLen characters of
\* `rest` that is an operator name, 1 when there is none.
LongestOperator(w, i, rest) ==
  LET lens == {n \in 1..Min2(Len(rest), kMaxOperatorLen) :
                 n = 1 \/ IsOperatorName(w, i, SubSeq(rest, 1, n))}
  IN CHOOSE n \in lens : \A m \in lens : m <= n

\* The tokens of the punctuation run `rest`, whose first character is at `offset`.
RECURSIVE RunTokens(_, _, _, _)
RunTokens(w, i, rest, offset) ==
  IF rest = "" THEN <<>>
  ELSE LET n == LongestOperator(w, i, rest)
       IN <<newToken(kTokenPunct, offset, SubSeq(rest, 1, n), Null)>>
            \o RunTokens(w, i, SubSeq(rest, n + 1, Len(rest)), offset + n)

\* The punctuation run of the input a<run>b.
RunOf(input) == SubSeq(input, 2, Len(input) - 1)

\* C23: a run of punctuation characters is split, from the left, into the
\* longest prefixes of at most four characters that name an operator of the
\* registry (unary or binary), or one character when no prefix does; the
\* tokens are contiguous and carry the offset of their first character.
C23_LongestOperator ==
  (last.op = "tokenize" /\ px.kind = "run") =>
    /\ ex.out = "ok"
    /\ ex.tokens = <<newToken(kTokenIdent, 0, "a", Null)>>
                     \o RunTokens(W, 2, RunOf(px.input), 1)
                     \o <<newToken(kTokenIdent, Len(px.input) - 1, "b", Null)>>


\* The text after the prefix begins with a dot and a digit.
DotDigit(p) ==
  /\ Len(p.input) >= Len(p.prefix) + 2
  /\ SubSeq(p.input, Len(p.prefix) + 1, Len(p.prefix) + 1) = "."
  /\ SubSeq(p.input, Len(p.prefix) + 2, Len(p.prefix) + 2) \in Digits

\* The tokens of the prefix followed by the dot alone.
UpToDot(p) == tokenize(W, 2, p.prefix \o ".").tokens

\* The dot is a token of its own there (it is not the end of a number, as in 1.).
LoneDot(p) ==
  /\ UpToDot(p) # <<>>
  /\ UpToDot(p)[Len(UpToDot(p))] = newToken(kTokenPunct, Len(p.prefix), ".", Null)

\* The token at index k of the sequence is a number that starts at the dot.
NumberAtDot(tokens, k, p) ==
  /\ Len(tokens) >= k
  /\ tokens[k].type = kTokenValue
  /\ tokens[k].position = Len(p.prefix)
  /\ SubSeq(tokens[k].data, 1, 2) = SubSeq(p.input, Len(p.prefix) + 1, Len(p.prefix) + 2)

\* C24: digits that directly follow a dot which was emitted as the token "."
\* take the dot back: the dot token is removed and one numeric token starts
\* at the dot's offset, while the tokens before it stay; no "." token is ever
\* directly followed by a number that begins with a digit, and a dot
\* separated from the digits by white space stays a token.
C24_DotBacktracking ==
  (last.op = "tokenize" /\ px.kind = "dot") =>
    /\ ex.out = "ok"
    /\ (DotDigit(px) /\ LoneDot(px)) =>
         /\ SubSeq(ex.tokens, 1, Len(UpToDot(px)) - 1)
              = SubSeq(UpToDot(px), 1, Len(UpToDot(px)) - 1)
         /\ NumberAtDot(ex.tokens, Len(UpToDot(px)), px)
    /\ \A k \in 1..(Len(ex.tokens) - 1) :
         ~ /\ ex.tokens[k].data = "."
           /\ ex.tokens[k + 1].type = kTokenValue
           /\ ex.tokens[k + 1].position = ex.tokens[k].position + 1
           /\ SubSeq(ex.tokens[k + 1].data, 1, 1) \in Digits
    /\ px.input \in {". 5", "1 + . 5"} =>
         /\ ex.tokens[Len(ex.tokens) - 1] = newToken(kTokenPunct, Len(px.input) - 3, ".", Null)
         /\ ex.tokens[Len(ex.tokens)] = newToken(kTokenValue, Len(px.input) - 1, "5", Num(5))
    /\ px.input = ".5" => ex.tokens = <<newToken(kTokenValue, 0, ".5", parseFloat(".5"))>>
    /\ px.input = "1+.5" =>
         ex.tokens = <<newToken(kTokenValue, 0, "1", Num(1)), newToken(kTokenPunct, 1, "+", Null),
                       newToken(kTokenValue, 2, ".5", parseFloat(".5"))>>

\* 1 + .5 was tokenized: the dot joined the digits after the operator.
C24_Witness ==
  /\ last.op = "tokenize"
  /\ px.input = "1 + .5"
  /\ Len(ex.tokens) = 3
  /\ ex.tokens[3].data = ".5"


(***************************************************************************)
(* Properties of the caches of an Expression.                              *)
(***************************************************************************)
\* C25: the caches are never stale.  When $vars is set it maps exactly the
\* names of the Var nodes under the current root to those nodes, and when
\* $eval is set it is the function compiled from the current root; a fold
\* that changes the tree clears both, a fold that changes nothing keeps them.
C25_CachesNeverStale ==
  [][ex'.out = "ok" =>
       /\ ex'.exp.varsCache # Null =>
            /\ ex'.exp.varsCache = VarsOf(onNodeInfo(ex'.exp.root, <<>>))
            /\ DOMAIN ex'.exp.varsCache.map = FreeVars(ex'.exp.root, <<>>)
            /\ \A name \in DOMAIN ex'.exp.varsCache.map :
                 ex'.exp.varsCache.map[name] \in VarNodes(ex'.exp.root)
       /\ ex'.exp.evalCache # Null =>
            ex'.exp.evalCache = onFuncCompile(W, ex'.exp, VMapString("v"), Null)
       /\ (last'.op = "fold" /\ ex'.exp.root # ex.exp.root) =>
            (ex'.exp.varsCache = Null /\ ex'.exp.evalCache = Null)
       /\ (last'.op = "fold" /\ ex'.exp.root = ex.exp.root) =>
            (ex'.exp.varsCache = ex.exp.varsCache /\ ex'.exp.evalCache = ex.exp.evalCache)]_vars

\* After a fold with x = 1 that rewrote x * (y + 1), both caches were filled
\* from the new tree, and a second fold with x = 1 kept them.
C25_Witness ==
  /\ last.op = "fold"
  /\ px.folds = 2
  /\ px.prev.map = [x |-> Num(1)]
  /\ px.input = "x * (y + 1)"
  /\ ex.exp.varsCache # Null
  /\ DOMAIN ex.exp.varsCache.map = {"y"}
  /\ ex.exp.evalCache # Null


(***************************************************************************)
(* Properties of the emit templates.                                       *)
(***************************************************************************)
\* C26: in the template of a Function @1 is the compiled first argument and
\* @2 the second one: an expression that applies isint, issafeint, isnan or
\* isfinite (or a function added with a template over @1 and @2) to
\* variables compiles, and the evaluator returns what the `eval` callbacks
\* of the tree give for the bound values.
C26_FunctionTemplate ==
  (px.kind = "template" /\ last.op \in {"eval", "compile", "call"}) =>
    /\ last.out = "ok"
    /\ last.op = "call" => last.ret = ValueOf(ex.exp.root, px.vals)


\* C27: a definition added without `emit` gets a template that calls its own
\* `eval` callback: an expression over functions, binary operators and unary
\* operators registered without a template compiles, and the evaluator
\* returns what the `eval` callbacks of the tree give for the bound values.
C27_AutoTemplate ==
  (px.kind = "auto" /\ last.op \in {"eval", "compile", "call"}) =>
    /\ last.out = "ok"
    /\ last.op = "call" => last.ret = ValueOf(ex.exp.root, px.vals)


(***************************************************************************)
(* Properties of equal-precedence chains and of unary operators.           *)
(***************************************************************************)
\* The chain grouped left-to-right: ((1 o 2) o 3) o 4 ...
RECURSIVE LeftGrouped(_, _)
LeftGrouped(ops, n) ==
  IF n = 0 THEN Num(1)
  ELSE newBinary(ops[n], get(W, 2, ops[n]), LeftGrouped(ops, n - 1), Num(n + 1))

\* The chain grouped right-to-left: 1 o (2 o (3 o 4)) ...
RECURSIVE RightGrouped(_, _)
RightGrouped(ops, k) ==
  IF k > Len(ops) THEN Num(k)
  ELSE newBinary(ops[k], get(W, 2, ops[k]), Num(k), RightGrouped(ops, k + 1))

\* C28: a chain of binary operators of one precedence groups right-to-left
\* when every operator of the chain is right-associative, and left-to-right
\* as soon as one operator of the chain is left-associative.
C28_EqualPrecedenceChain ==
  px.done =>
    /\ ex.out = "ok"
    /\ \A j \in 1..Len(px.input) : PrecOf(px.input[j]) = 5
    /\ IF \A j \in 1..Len(px.input) : RtlOf(px.input[j])
       THEN ex.exp.root = RightGrouped(px.input, 1)
       ELSE ex.exp.root = LeftGrouped(px.input, Len(px.input))


\* The operand `value` below the unary operators of `chain`, first outermost.
RECURSIVE Nested(_, _, _)
Nested(chain, k, value) ==
  IF k > Len(chain) THEN value
  ELSE newUnary("unary" \o chain[k], get(W, 2, "unary" \o chain[k]), Nested(chain, k + 1, value))

UnaryPrecOf(u) == get(W, 2, "unary" \o u).prec.n

\* C29: a chain of unary operators nests with the first one outermost; when
\* the binary operator after the operand binds tighter than the unary
\* operators (its precedence number is lower) they apply to the whole
\* binary expression, and when it binds looser they apply to the operand.
C29_UnaryPrecedence ==
  px.done =>
    /\ ex.out = "ok"
    /\ px.op = "" => ex.exp.root = Nested(px.unary, 1, Num(1))
    /\ (px.op # "" /\ \A k \in 1..Len(px.unary) : PrecOf(px.op) < UnaryPrecOf(px.unary[k])) =>
         ex.exp.root = Nested(px.unary, 1, newBinary(px.op, get(W, 2, px.op), Num(1), Num(2)))
    /\ (px.op # "" /\ \A k \in 1..Len(px.unary) : PrecOf(px.op) > UnaryPrecOf(px.unary[k])) =>
         ex.exp.root = newBinary(px.op, get(W, 2, px.op), Nested(px.unary, 1, Num(1)), Num(2))


(***************************************************************************)
(* Properties of add and del.                                              *)
(***************************************************************************)
\* The key under which a builder stores a definition of the given name.
RegisteredAs(c) ==
  IF c.b = "addUnary" THEN "unary" \o ToStr(c.def.name) ELSE ToStr(c.def.name)

\* The parser takes the name of a removed definition for a variable (an
\* identifier) or rejects the input (an operator, a call).
NotRecognised(c) ==
  IF c.b = "addConstant"
  THEN ex.out = "ok" /\ IsNode(ex.exp.root) /\ ex.exp.root.type = "Var"
  ELSE ex.out = "ExpressionError"

Present(name) == Has(Lang(W, 2), name) \/ Has(Func(W, 2), name)

\* C30: on an unfrozen registry, del(n) after a builder call with name n
\* succeeds and leaves the definition in neither table, the parser does not
\* recognise the name any more, and the same builder call succeeds again;
\* del of a name that is in neither table succeeds and changes nothing.
C30_AddDelRoundTrip ==
  /\ (px.step = "added" /\ last.op # "exp") =>
       last.out = "ok" /\ Has(Lang(W, 2), RegisteredAs(px.c))
  /\ (px.step = "added" /\ last.op = "exp") => ~NotRecognised(px.c)
  /\ (px.step = "deleted" /\ last.op = "del") =>
       last.out = "ok" /\ ~Present(RegisteredAs(px.c))
  /\ (px.step = "deleted" /\ last.op = "exp") => NotRecognised(px.c)
  /\ px.step = "again" =>
       last.out = "ok" /\ Has(Lang(W, 2), RegisteredAs(px.c))
  /\ (px.step = "first" /\ ~Has(Lang(RoundWorld, 2), last.arg.s)
        /\ ~Has(Func(RoundWorld, 2), last.arg.s)) =>
       last.out = "ok" /\ W = RoundWorld
====
